-------------------------- MODULE AlertWorkerProofs ---------------------------
(***************************************************************************)
(* Theorems about AlertWorker, for all sets of events, messages and        *)
(* workers, every lease, retention and duration of work.                   *)
(***************************************************************************)
EXTENDS AlertWorker, TLAPS

\* What leads to COMPLETED and to a deletion is preceded by a notification.
NotifiedFirst ==
  /\ \A e \in Event : Completed(e) => e \in notified
  /\ \A w \in Worker, e \in Event :
       pc[w] \in {"complete", "ack"} /\ Works(w, e) => e \in notified
  /\ \A m \in deleted : EventOf[m] \in notified

\* A worker that holds an event still owns its claim, with all of the lease left
\* that it has not used, or it has outlived the lease.
HoldsWithinLease ==
  \A w \in Worker, e \in Event : Holds(w, e) =>
    age[w] > Lease \/ (Owns(w, e) /\ record[e].left >= Lease - age[w])

Inv == TypeOK /\ NotifiedFirst /\ HoldsWithinLease

-----------------------------------------------------------------------------

LEMMA InitInv == Init => Inv
BY AlertAssumption
   DEF Init, Inv, TypeOK, PC, NotifiedFirst, HoldsWithinLease, Completed, Recorded, Holds

\* The event a worker works on is one.
LEMMA WorksOnOne ==
  ASSUME NEW w \in Worker, NEW e, NEW f, Works(w, e), Works(w, f) PROVE e = f
BY DEF Works

LEMMA ArriveStep == ASSUME Inv, NEW m \in Message, Arrive(m) PROVE Inv'
BY AlertAssumption DEF Inv, TypeOK, NotifiedFirst, HoldsWithinLease, Arrive, workerVars,
     Completed, Recorded, Holds, Works, Owns, Claimed

LEMMA TickStep == ASSUME Inv, Tick PROVE Inv'
<1>1. \A e \in Event : /\ record'[e] = Aged(record[e])
                       /\ record[e] = NoRecord \/ record[e] \in Claims
  BY DEF Inv, TypeOK, Tick
<1>2. ASSUME NEW r \in Claims
      PROVE  /\ Aged(r) \in Claims /\ Aged(r) # NoRecord
             /\ Aged(r).status = r.status /\ Aged(r).claim = r.claim
             /\ Aged(r).left >= r.left - 1
  <2>1. r.left \in Int /\ Past \in Int
    BY AlertAssumption DEF Claims, Past
  <2>2. Aged(r) = r \/ Aged(r) = [r EXCEPT !.left = @ - 1]
    BY DEF Aged
  <2>3. Aged(r) \in Claims
    BY <2>1, <2>2 DEF Claims
  <2>4. /\ Aged(r).status = r.status /\ Aged(r).claim = r.claim
        /\ Aged(r).left >= r.left - 1
    BY <2>1, <2>2 DEF Claims
  <2> QED BY <2>3, <2>4, AlertAssumption
<1>3. Aged(NoRecord) = NoRecord
  BY DEF Aged
<1>4. \A e \in Event : /\ Completed(e)' <=> Completed(e)
                       /\ \A w \in Worker : Owns(w, e)' <=> Owns(w, e)
  BY <1>1, <1>2, <1>3 DEF Completed, Owns, Claimed, Recorded
<1>5. TypeOK'
  <2>1. record' \in [Event -> Claims \cup {NoRecord}]
    BY <1>1, <1>2, <1>3 DEF Tick
  <2>2. age' \in [Worker -> 0 .. MaxHold]
    BY AlertAssumption DEF Tick, Inv, TypeOK
  <2> QED BY <2>1, <2>2 DEF Inv, TypeOK, Tick
<1>6. NotifiedFirst'
  BY <1>4 DEF Inv, NotifiedFirst, Tick, Works
<1>7. HoldsWithinLease'
  <2> SUFFICES ASSUME NEW w \in Worker, NEW e \in Event, Holds(w, e)', ~(age'[w] > Lease)
               PROVE  Owns(w, e)' /\ record'[e].left >= Lease - age'[w]
    BY DEF HoldsWithinLease
  <2>1. Holds(w, e) /\ pc[w] # "idle" /\ age'[w] = age[w] + 1
    BY DEF Tick, Holds, Works
  <2>2. Owns(w, e) /\ record[e].left >= Lease - age[w]
    BY <2>1, AlertAssumption DEF Inv, TypeOK, HoldsWithinLease
  <2>3. record[e] \in Claims
    BY <2>2, <1>1 DEF Owns, Claimed, Recorded
  <2>4. record'[e].left >= record[e].left - 1 /\ record'[e].left \in Int
    BY <1>1, <1>2, <2>3 DEF Claims
  <2>5. record[e].left \in Int /\ age[w] \in Int /\ Lease \in Int
    BY <2>3, AlertAssumption DEF Claims, Inv, TypeOK
  <2> QED BY <1>4, <2>1, <2>2, <2>4, <2>5
<1> QED BY <1>5, <1>6, <1>7 DEF Inv

\* An item that has expired is owned by no worker within its lease.
LEMMA ExpiredIsFree ==
  ASSUME Inv, NEW w \in Worker, NEW e \in Event, Holds(w, e), Recorded(e), record[e].left < 0
  PROVE  age[w] > Lease
<1>1. record[e].left \in Int /\ age[w] \in Int /\ Lease \in Int
  BY AlertAssumption DEF Inv, TypeOK, Recorded, Claims
<1> QED BY <1>1 DEF Inv, HoldsWithinLease

LEMMA ExpireStep == ASSUME Inv, NEW e \in Event, Expire(e) PROVE Inv'
<1>1. /\ record' = [record EXCEPT ![e] = NoRecord] /\ Recorded(e) /\ record[e].left < 0
      /\ UNCHANGED <<arrived, deleted, notified, pc, msg, age>>
  BY DEF Expire, workerVars, Live, Inv, TypeOK, Recorded, Claims
<1>2. TypeOK'
  BY <1>1 DEF Inv, TypeOK
<1>3. NotifiedFirst'
  BY <1>1 DEF Inv, TypeOK, NotifiedFirst, Completed, Recorded, Works
<1>4. HoldsWithinLease'
  BY <1>1, ExpiredIsFree DEF Inv, TypeOK, HoldsWithinLease, Holds, Works, Owns, Claimed, Recorded
<1> QED BY <1>2, <1>3, <1>4 DEF Inv

-----------------------------------------------------------------------------

\* Where a worker may go while the rest stays: it keeps its message, or ends.
LEMMA Moves ==
  ASSUME Inv, NEW w \in Worker, pc[w] # "idle",
         NEW place \in PC \ {"idle"}, Goto(w, place) \/ Leave(w)
  PROVE  /\ pc' \in [Worker -> PC]
         /\ msg' \in [Worker -> arrived \cup {NoMessage}]
         /\ age' \in [Worker -> 0 .. MaxHold]
         /\ \A v \in Worker : pc'[v] = "idle" <=> msg'[v] = NoMessage
         /\ pc'[w] \in {place, "idle"}
         /\ \A v \in Worker \ {w} : pc'[v] = pc[v] /\ msg'[v] = msg[v] /\ age'[v] = age[v]
         /\ pc'[w] # "idle" => msg'[w] = msg[w] /\ age'[w] = age[w]
BY AlertAssumption DEF Inv, TypeOK, PC, Goto, Leave

\* A step of w that leaves queue, table and notifications alone, and that takes
\* it neither into the hands of a claim nor unnotified to an acknowledgement.
LEMMA QuietStep ==
  ASSUME Inv, NEW w \in Worker, pc[w] # "idle",
         NEW place \in PC \ {"idle"}, Goto(w, place) \/ Leave(w),
         place \in {"claim", "status"} \/ (\A e \in Event : Works(w, e) => place = "ack" /\ e \in notified),
         UNCHANGED <<arrived, deleted, record, notified>>
  PROVE  Inv'
<1>1. TypeOK'
  BY Moves DEF Inv, TypeOK
<1>2. \A v \in Worker, e \in Event :
        pc'[v] # "idle" => (Works(v, e)' <=> Works(v, e))
  BY Moves DEF Works
<1>3. NotifiedFirst'
  BY <1>2, Moves DEF Inv, NotifiedFirst, Completed, Recorded, Works
<1>4. HoldsWithinLease'
  BY <1>2, Moves DEF Inv, HoldsWithinLease, Holds, Works, Owns, Claimed, Recorded
<1> QED BY <1>1, <1>3, <1>4 DEF Inv

LEMMA ReceiveStep ==
  ASSUME Inv, NEW w \in Worker, NEW m \in Message, Receive(w, m) PROVE Inv'
<1>1. TypeOK'
  BY AlertAssumption DEF Inv, TypeOK, Receive, PC
<1>2. NotifiedFirst'
  BY DEF Inv, TypeOK, NotifiedFirst, Receive, Completed, Recorded, Works
<1>3. HoldsWithinLease'
  BY DEF Inv, TypeOK, HoldsWithinLease, Receive, Holds, Works, Owns, Claimed, Recorded
<1> QED BY <1>1, <1>2, <1>3 DEF Inv

LEMMA ClaimStep ==
  ASSUME Inv, NEW w \in Worker, NEW e \in Event, ClaimEvent(w, e) PROVE Inv'
<1> DEFINE new == [status |-> "PROCESSING", claim |-> w, left |-> Lease - age[w]]
<1>1. /\ pc[w] = "claim" /\ Works(w, e) /\ record' = [record EXCEPT ![e] = new]
      /\ UNCHANGED <<arrived, deleted, notified>>
  BY DEF ClaimEvent
<1>2. new \in Claims /\ new # NoRecord /\ new.left = Lease - age[w] /\ age[w] \in Nat
  BY AlertAssumption DEF Inv, TypeOK, Claims
<1>3. PICK place \in {"publish", "status"} : Goto(w, place) \/ Leave(w)
  BY DEF ClaimEvent
<1>4. /\ pc' \in [Worker -> PC]
      /\ msg' \in [Worker -> arrived \cup {NoMessage}]
      /\ age' \in [Worker -> 0 .. MaxHold]
      /\ \A v \in Worker : pc'[v] = "idle" <=> msg'[v] = NoMessage
      /\ pc'[w] \in {place, "idle"}
      /\ \A v \in Worker \ {w} : pc'[v] = pc[v] /\ msg'[v] = msg[v] /\ age'[v] = age[v]
      /\ pc'[w] # "idle" => msg'[w] = msg[w] /\ age'[w] = age[w]
  <2>1. place \in PC \ {"idle"} /\ pc[w] # "idle"
    BY <1>1, <1>3 DEF PC
  <2> QED BY <1>3, <2>1, Moves
<1>5. record' \in [Event -> Claims \cup {NoRecord}] /\ record'[e] = new
      /\ \A f \in Event \ {e} : record'[f] = record[f]
  <2>1. record \in [Event -> Claims \cup {NoRecord}]
    BY DEF Inv, TypeOK
  <2> QED BY <1>1, <1>2, <2>1
<1>6. TypeOK'
  BY <1>1, <1>4, <1>5 DEF Inv, TypeOK
<1>7. NotifiedFirst'
  <2>1. \A f \in Event : Completed(f)' => Completed(f)
    BY <1>5 DEF Completed, Recorded
  <2>2. \A v \in Worker, f \in Event : pc'[v] \in {"complete", "ack"} /\ Works(v, f)' =>
          pc[v] \in {"complete", "ack"} /\ Works(v, f)
    BY <1>4 DEF Works
  <2> QED BY <1>1, <2>1, <2>2 DEF Inv, NotifiedFirst
<1>8. HoldsWithinLease'
  <2> SUFFICES ASSUME NEW v \in Worker, NEW f \in Event, Holds(v, f)', ~(age'[v] > Lease)
               PROVE  Owns(v, f)' /\ record'[f].left >= Lease - age'[v]
    BY DEF HoldsWithinLease
  <2>1. CASE v = w
    <3>1. pc'[w] = "publish" /\ msg'[w] = msg[w] /\ age'[w] = age[w]
      BY <1>3, <1>4, <2>1 DEF Holds, Works
    <3>2. f = e
      BY <1>1, <2>1, <3>1 DEF Holds, Works
    <3> QED BY <1>2, <1>5, <2>1, <3>1, <3>2, AlertAssumption DEF Owns, Claimed, Recorded
  <2>2. CASE v # w
    <3>1. Holds(v, f) /\ age'[v] = age[v]
      BY <1>4, <2>2 DEF Holds, Works
    <3>2. Owns(v, f) /\ record[f].left >= Lease - age[v]
      BY <3>1 DEF Inv, HoldsWithinLease
    <3>3. f # e
      <4> SUFFICES ASSUME f = e PROVE FALSE
        OBVIOUS
      <4>1. Recorded(e) /\ record[e].left < -age[w]
        BY <3>2 DEF ClaimEvent, Claimable, Owns, Claimed
      <4>2. record[e].left \in Int /\ age[w] \in Nat
        BY <4>1 DEF Inv, TypeOK, Recorded, Claims
      <4>3. record[e].left < 0
        BY <4>1, <4>2
      <4> QED BY <3>1, <4>1, <4>3, ExpiredIsFree
    <3> QED BY <1>5, <3>1, <3>2, <3>3 DEF Owns, Claimed, Recorded
  <2> QED BY <2>1, <2>2
<1> QED BY <1>6, <1>7, <1>8 DEF Inv

LEMMA PublishStep ==
  ASSUME Inv, NEW w \in Worker, NEW e \in Event, PublishAny(w, e) PROVE Inv'
<1>1. PICK accepted \in BOOLEAN, ok \in BOOLEAN : Publish(w, e, accepted, ok)
  BY DEF PublishAny
<1> DEFINE place == IF ok THEN "complete" ELSE "release"
<1>2. /\ pc[w] = "publish" /\ Works(w, e) /\ (ok => accepted) /\ Goto(w, place)
      /\ notified' = IF accepted THEN notified \cup {e} ELSE notified
      /\ UNCHANGED <<arrived, deleted, record, msg, age>>
  BY <1>1 DEF Publish, Goto
<1>3. /\ place \in PC \ {"idle"} /\ pc' = [pc EXCEPT ![w] = place]
      /\ pc \in [Worker -> PC]
  BY <1>2 DEF PC, Goto, Inv, TypeOK
<1>4. TypeOK'
  BY <1>2, <1>3 DEF Inv, TypeOK
<1>5. \A v \in Worker, f \in Event :
        pc[v] # "idle" /\ pc'[v] # "idle" => (Works(v, f)' <=> Works(v, f))
  BY <1>2 DEF Works
<1>6. NotifiedFirst'
  <2>1. \A v \in Worker, f \in Event :
          pc'[v] \in {"complete", "ack"} /\ Works(v, f)' => f \in notified'
    <3> SUFFICES ASSUME NEW v \in Worker, NEW f \in Event,
                        pc'[v] \in {"complete", "ack"}, Works(v, f)'
                 PROVE  f \in notified'
      OBVIOUS
    <3>1. CASE v = w
      <4>1. ok /\ Works(w, f)
        BY <1>2, <1>3, <3>1 DEF Works
      <4>2. f = e
        BY <1>2, <4>1, WorksOnOne
      <4> QED BY <1>2, <4>1, <4>2
    <3>2. CASE v # w
      BY <1>2, <1>3, <3>2 DEF Inv, NotifiedFirst, Works
    <3> QED BY <3>1, <3>2
  <2> QED BY <1>2, <2>1 DEF Inv, NotifiedFirst, Completed, Recorded
<1>7. HoldsWithinLease'
  <2>1. \A v \in Worker, f \in Event : Holds(v, f)' => Holds(v, f)
    BY <1>2, <1>3 DEF Holds, Works
  <2> QED BY <1>2, <2>1 DEF Inv, HoldsWithinLease, Owns, Claimed, Recorded
<1> QED BY <1>4, <1>6, <1>7 DEF Inv

\* The table changes for no other holder of a claim than its owner.
LEMMA OthersOwnOther ==
  ASSUME NEW v \in Worker, NEW w \in Worker, NEW e \in Event, v # w, Owns(w, e)
  PROVE  ~Owns(v, e)
BY DEF Owns

LEMMA ReleaseStep ==
  ASSUME Inv, NEW w \in Worker, NEW e \in Event, Release(w, e) PROVE Inv'
<1>1. /\ pc[w] = "release" /\ Works(w, e) /\ Leave(w)
      /\ UNCHANGED <<arrived, deleted, notified>>
      /\ record' = IF Owns(w, e) THEN [record EXCEPT ![e] = NoRecord] ELSE record
  BY DEF Release
<1>2. TypeOK'
  BY <1>1, AlertAssumption DEF Inv, TypeOK, Leave, PC
<1>3. \A v \in Worker, f \in Event :
        pc'[v] # "idle" /\ Works(v, f)' =>
          v # w /\ pc'[v] = pc[v] /\ age'[v] = age[v] /\ Works(v, f)
  BY <1>1 DEF Inv, TypeOK, Leave, Works
<1>4. NotifiedFirst'
  BY <1>1, <1>3 DEF Inv, TypeOK, NotifiedFirst, Completed, Recorded
<1>5. HoldsWithinLease'
  <2> SUFFICES ASSUME NEW v \in Worker, NEW f \in Event, Holds(v, f)', ~(age'[v] > Lease)
               PROVE  Owns(v, f)' /\ record'[f].left >= Lease - age'[v]
    BY DEF HoldsWithinLease
  <2>1. v # w /\ Holds(v, f) /\ age'[v] = age[v]
    BY <1>3 DEF Holds, Works
  <2>2. Owns(v, f) /\ record[f].left >= Lease - age[v]
    BY <2>1 DEF Inv, HoldsWithinLease
  <2>3. record'[f] = record[f]
    BY <1>1, <2>1, <2>2, OthersOwnOther DEF Inv, TypeOK
  <2> QED BY <2>1, <2>2, <2>3 DEF Owns, Claimed, Recorded
<1> QED BY <1>2, <1>4, <1>5 DEF Inv

LEMMA CompleteStep ==
  ASSUME Inv, NEW w \in Worker, NEW e \in Event, Complete(w, e) PROVE Inv'
<1>1. PICK read \in 0 .. age[w] : record' = [record EXCEPT ![e] =
                  [@ EXCEPT !.status = "COMPLETED", !.left = Retention - read]]
  BY DEF Complete
<1> DEFINE new == [record[e] EXCEPT !.status = "COMPLETED", !.left = Retention - read]
<1>2. /\ pc[w] = "complete" /\ Works(w, e) /\ Owns(w, e)
      /\ UNCHANGED <<arrived, deleted, notified>>
      /\ Goto(w, "ack") \/ Leave(w)
  BY DEF Complete
<1>3. new \in Claims /\ record' = [record EXCEPT ![e] = new]
      /\ record \in [Event -> Claims \cup {NoRecord}]
  <2>1. record[e] \in Claims /\ age[w] \in Nat
    BY <1>2 DEF Inv, TypeOK, Owns, Claimed, Recorded
  <2>2. Retention - read \in Int
    BY <2>1, AlertAssumption
  <2>3. new \in Claims
    BY <2>1, <2>2 DEF Claims
  <2>4. record \in [Event -> Claims \cup {NoRecord}]
    BY DEF Inv, TypeOK
  <2>5. record' = [record EXCEPT ![e] = new]
    BY <1>1
  <2> QED BY <2>3, <2>4, <2>5
<1>4. /\ pc' \in [Worker -> PC]
      /\ msg' \in [Worker -> arrived \cup {NoMessage}]
      /\ age' \in [Worker -> 0 .. MaxHold]
      /\ \A v \in Worker : pc'[v] = "idle" <=> msg'[v] = NoMessage
      /\ pc'[w] \in {"ack", "idle"}
      /\ \A v \in Worker \ {w} : pc'[v] = pc[v] /\ msg'[v] = msg[v] /\ age'[v] = age[v]
      /\ pc'[w] # "idle" => msg'[w] = msg[w] /\ age'[w] = age[w]
  <2>1. "ack" \in PC \ {"idle"} /\ pc[w] # "idle"
    BY <1>2 DEF PC
  <2> QED BY <1>2, <2>1, Moves
<1>5. TypeOK'
  BY <1>2, <1>3, <1>4 DEF Inv, TypeOK
<1>6. NotifiedFirst'
  <2>1. e \in notified
    BY <1>2 DEF Inv, NotifiedFirst
  <2>2. \A f \in Event : Completed(f)' => f \in notified
    BY <1>3, <2>1 DEF Inv, NotifiedFirst, Completed, Recorded
  <2>3. \A v \in Worker, f \in Event : pc'[v] \in {"complete", "ack"} /\ Works(v, f)' =>
          pc[v] \in {"complete", "ack"} /\ Works(v, f)
    BY <1>2, <1>4 DEF Works
  <2> QED BY <1>2, <2>2, <2>3 DEF Inv, NotifiedFirst
<1>7. HoldsWithinLease'
  <2> SUFFICES ASSUME NEW v \in Worker, NEW f \in Event, Holds(v, f)', ~(age'[v] > Lease)
               PROVE  Owns(v, f)' /\ record'[f].left >= Lease - age'[v]
    BY DEF HoldsWithinLease
  <2>1. v # w /\ Holds(v, f) /\ age'[v] = age[v]
    BY <1>4 DEF Holds, Works
  <2>2. Owns(v, f) /\ record[f].left >= Lease - age[v]
    BY <2>1 DEF Inv, HoldsWithinLease
  <2>3. record'[f] = record[f]
    BY <1>2, <1>3, <2>1, <2>2, OthersOwnOther
  <2> QED BY <2>1, <2>2, <2>3 DEF Owns, Claimed, Recorded
<1> QED BY <1>5, <1>6, <1>7 DEF Inv

LEMMA AcknowledgeStep ==
  ASSUME Inv, NEW w \in Worker, Acknowledge(w) PROVE Inv'
<1>1. /\ pc[w] = "ack" /\ Leave(w) /\ deleted' = deleted \cup {msg[w]}
      /\ UNCHANGED <<arrived, record, notified>>
  BY DEF Acknowledge
<1>2. msg[w] \in arrived /\ EventOf[msg[w]] \in Event /\ EventOf[msg[w]] \in notified
  BY <1>1, AlertAssumption DEF Inv, TypeOK, NotifiedFirst, Works
<1>3. TypeOK'
  BY <1>1, <1>2, AlertAssumption DEF Inv, TypeOK, Leave, PC
<1>4. \A v \in Worker, f \in Event :
        pc'[v] # "idle" /\ Works(v, f)' =>
          v # w /\ pc'[v] = pc[v] /\ age'[v] = age[v] /\ Works(v, f)
  BY <1>1 DEF Inv, TypeOK, Leave, Works
<1>5. NotifiedFirst'
  BY <1>1, <1>2, <1>4 DEF Inv, NotifiedFirst, Completed, Recorded
<1>6. HoldsWithinLease'
  BY <1>1, <1>4 DEF Inv, HoldsWithinLease, Holds, Works, Owns, Claimed, Recorded
<1> QED BY <1>3, <1>5, <1>6 DEF Inv

LEMMA ProcessStep ==
  ASSUME Inv, NEW w \in Worker, NEW e \in Event, Process(w, e) PROVE Inv'
<1>1. "status" \in PC \ {"idle"} /\ "ack" \in PC \ {"idle"}
  BY DEF PC
<1>2. CASE ClaimEvent(w, e)
  BY <1>2, ClaimStep
<1>3. CASE ClaimRefused(w, e)
  <2>1. pc[w] # "idle" /\ Goto(w, "status") /\ UNCHANGED <<arrived, deleted, record, notified>>
    BY <1>3 DEF ClaimRefused
  <2> QED BY <1>1, <2>1, QuietStep
<1>4. CASE GetStatus(w, e)
  <2>1. /\ pc[w] # "idle" /\ Works(w, e)
        /\ UNCHANGED <<arrived, deleted, record, notified>>
        /\ \/ Completed(e) /\ Goto(w, "ack")
           \/ Leave(w)
    BY <1>4 DEF GetStatus
  <2>2. CASE Completed(e) /\ Goto(w, "ack")
    <3>1. \A f \in Event : Works(w, f) => f \in notified
      BY <2>1, <2>2, WorksOnOne DEF Inv, NotifiedFirst
    <3> QED BY <1>1, <2>1, <2>2, <3>1, QuietStep
  <2>3. CASE Leave(w)
    BY <1>1, <2>1, <2>3, QuietStep
  <2> QED BY <2>1, <2>2, <2>3
<1>5. CASE PublishAny(w, e)
  BY <1>5, PublishStep
<1>6. CASE Release(w, e)
  BY <1>6, ReleaseStep
<1>7. CASE Complete(w, e)
  BY <1>7, CompleteStep
<1>8. CASE CompleteRefused(w, e)
  <2>1. pc[w] # "idle" /\ Leave(w) /\ UNCHANGED <<arrived, deleted, record, notified>>
    BY <1>8 DEF CompleteRefused
  <2> QED BY <1>1, <2>1, QuietStep
<1> QED BY <1>2, <1>3, <1>4, <1>5, <1>6, <1>7, <1>8 DEF Process

LEMMA NextInv == Inv /\ [Next]_vars => Inv'
<1> SUFFICES ASSUME Inv, [Next]_vars PROVE Inv'
  OBVIOUS
<1>1. CASE \E m \in Message : Arrive(m)
  BY <1>1, ArriveStep
<1>2. CASE Tick
  BY <1>2, TickStep
<1>3. CASE \E e \in Event : Expire(e)
  BY <1>3, ExpireStep
<1>4. CASE \E w \in Worker, m \in Message : Receive(w, m)
  BY <1>4, ReceiveStep
<1>5. CASE \E w \in Worker, e \in Event : Process(w, e)
  BY <1>5, ProcessStep
<1>6. CASE \E w \in Worker : Acknowledge(w)
  BY <1>6, AcknowledgeStep
<1>7. CASE \E w \in Worker : Abandon(w)
  <2>1. PICK w \in Worker : /\ pc[w] # "idle" /\ Leave(w)
                            /\ UNCHANGED <<arrived, deleted, record, notified>>
    BY <1>7 DEF Abandon
  <2>2. "status" \in PC \ {"idle"}
    BY DEF PC
  <2> QED BY <2>1, <2>2, QuietStep
<1>8. CASE UNCHANGED vars
  BY <1>8 DEF vars, workerVars, Inv, TypeOK, NotifiedFirst, HoldsWithinLease, Completed,
              Recorded, Claimed, Owns, Holds, Works
<1> QED BY <1>1, <1>2, <1>3, <1>4, <1>5, <1>6, <1>7, <1>8 DEF Next

LEMMA Invariance == Spec => []Inv
BY InitInv, NextInv, PTL DEF Spec

-----------------------------------------------------------------------------

\* Every reachable state has the types of the code's records and local variables.
THEOREM TypeCorrect == Spec => []TypeOK
BY Invariance, PTL DEF Inv

\* Two workers hold one event at the same time only after one of them has outlived
\* its lease.
THEOREM ClaimsExclude == Spec => []LeaseExclusion
<1>1. Inv => LeaseExclusion
  BY DEF Inv, HoldsWithinLease, LeaseExclusion, Owns
<1> QED BY <1>1, Invariance, PTL

\* A live claim is settled or removed only by its owner: a late release or
\* completion by a worker whose claim was taken over changes nothing.
THEOREM LiveClaimsRespected == Spec => LiveClaimRespected
<1> DEFINE Respected(e) ==
      \/ Claimed(e)' /\ record'[e].claim = record[e].claim
      \/ \E w \in Worker : w = record[e].claim /\ (Release(w, e) \/ Complete(w, e))
<1>1. ASSUME Inv, [Next]_vars, NEW e \in Event, Claimed(e), Live(e) PROVE Respected(e)
  <2>1. /\ record[e] \in Claims /\ record[e] # NoRecord
        /\ record[e].status = "PROCESSING" /\ record[e].left \in Int /\ record[e].left >= 0
    BY <1>1 DEF Claimed, Live, Recorded, Inv, TypeOK, Claims
  <2>2. CASE UNCHANGED record
    BY <1>1, <2>2 DEF Claimed, Recorded
  <2>3. CASE Tick
    <3>1. record'[e] = record[e] \/ record'[e] = [record[e] EXCEPT !.left = @ - 1]
      BY <2>3 DEF Tick, Aged
    <3>2. record'[e] \in Claims /\ record'[e].status = record[e].status
          /\ record'[e].claim = record[e].claim
      BY <2>1, <3>1 DEF Claims
    <3> QED BY <2>1, <3>2, AlertAssumption DEF Claimed, Recorded
  <2>4. ASSUME NEW f \in Event, Expire(f) PROVE Respected(e)
    BY <1>1, <2>4 DEF Expire, Live, Claimed, Recorded, Inv, TypeOK
  <2>5. ASSUME NEW w \in Worker, NEW f \in Event, ClaimEvent(w, f) PROVE Respected(e)
    <3>1. age[w] \in Nat
      BY <1>1 DEF Inv, TypeOK
    <3>2. f # e
      BY <2>1, <2>5, <3>1 DEF ClaimEvent, Claimable, Recorded
    <3> QED BY <1>1, <2>5, <3>2 DEF ClaimEvent, Claimed, Recorded, Inv, TypeOK
  <2>6. ASSUME NEW w \in Worker, NEW f \in Event, Release(w, f) PROVE Respected(e)
    <3>1. CASE f = e /\ Owns(w, e)
      BY <2>6, <3>1 DEF Owns
    <3>2. CASE ~(f = e /\ Owns(w, e))
      BY <1>1, <2>6, <3>2 DEF Release, Claimed, Recorded, Inv, TypeOK
    <3> QED BY <3>1, <3>2
  <2>7. ASSUME NEW w \in Worker, NEW f \in Event, Complete(w, f) PROVE Respected(e)
    <3>1. CASE f = e
      BY <2>7, <3>1 DEF Complete, Owns
    <3>2. CASE f # e
      BY <1>1, <2>7, <3>2 DEF Complete, Claimed, Recorded, Inv, TypeOK
    <3> QED BY <3>1, <3>2
  <2> QED
    BY <1>1, <2>2, <2>3, <2>4, <2>5, <2>6, <2>7
       DEF Next, Arrive, Receive, Process, ClaimRefused, GetStatus, PublishAny, Publish,
           CompleteRefused, Acknowledge, Abandon, vars
<1>2. Inv /\ [Next]_vars => [\A e \in Event : Claimed(e) /\ Live(e) => Respected(e)]_vars
  BY <1>1
<1> QED BY <1>2, Invariance, PTL DEF Spec, LiveClaimRespected

\* A completion is remembered until expires_at, by every step of every worker.
THEOREM CompletionsKept == Spec => CompletionKept
<1>1. ASSUME Inv, [Next]_vars, NEW e \in Event, Completed(e), Live(e) PROVE Completed(e)'
  <2>1. /\ record[e] \in Claims /\ record[e] # NoRecord
        /\ record[e].status = "COMPLETED" /\ record[e].left \in Int /\ record[e].left >= 0
    BY <1>1 DEF Completed, Live, Recorded, Inv, TypeOK, Claims
  <2>2. CASE UNCHANGED record
    BY <1>1, <2>2 DEF Completed, Recorded
  <2>3. CASE Tick
    <3>1. record'[e] = record[e] \/ record'[e] = [record[e] EXCEPT !.left = @ - 1]
      BY <2>3 DEF Tick, Aged
    <3>2. record'[e] \in Claims /\ record'[e].status = record[e].status
      BY <2>1, <3>1 DEF Claims
    <3> QED BY <2>1, <3>2, AlertAssumption DEF Completed, Recorded
  <2>4. ASSUME NEW f \in Event, Expire(f) PROVE Completed(e)'
    BY <1>1, <2>4 DEF Expire, Live, Completed, Recorded, Inv, TypeOK
  <2>5. ASSUME NEW w \in Worker, NEW f \in Event, ClaimEvent(w, f) PROVE Completed(e)'
    <3>1. age[w] \in Nat
      BY <1>1 DEF Inv, TypeOK
    <3>2. f # e
      BY <2>1, <2>5, <3>1 DEF ClaimEvent, Claimable, Recorded
    <3> QED BY <1>1, <2>5, <3>2 DEF ClaimEvent, Completed, Recorded, Inv, TypeOK
  <2>6. ASSUME NEW w \in Worker, NEW f \in Event, Release(w, f) \/ Complete(w, f)
        PROVE  Completed(e)'
    <3>1. Owns(w, f) => f # e
      BY <2>1 DEF Owns, Claimed
    <3> QED BY <1>1, <2>6, <3>1 DEF Release, Complete, Completed, Recorded, Inv, TypeOK
  <2> QED
    BY <1>1, <2>2, <2>3, <2>4, <2>5, <2>6
       DEF Next, Arrive, Receive, Process, ClaimRefused, GetStatus, PublishAny, Publish,
           CompleteRefused, Acknowledge, Abandon, vars
<1>2. Inv /\ [Next]_vars => [\A e \in Event : Completed(e) /\ Live(e) => Completed(e)']_vars
  BY <1>1
<1> QED BY <1>2, Invariance, PTL DEF Spec, CompletionKept

-----------------------------------------------------------------------------

\* A worker owns its claim as long as it is within its lease.
THEOREM HolderOwnsClaim == Spec => []HolderOwns
<1>1. Inv => HolderOwns
  BY AlertAssumption DEF Inv, TypeOK, HoldsWithinLease, HolderOwns
<1> QED BY <1>1, Invariance, PTL

\* ... and does not notify an event that is remembered as COMPLETED.
THEOREM CompletedNotNotified == Spec => CompletedNotRepeated
<1>1. Inv => HolderOwns
  BY AlertAssumption DEF Inv, TypeOK, HoldsWithinLease, HolderOwns
<1>2. ASSUME HolderOwns, NEW w \in Worker, NEW e \in Event, PublishAny(w, e), age[w] <= Lease
      PROVE  ~(Completed(e) /\ Live(e))
  BY <1>2 DEF HolderOwns, PublishAny, Publish, Holds, Works, Owns, Claimed, Completed
<1>3. Inv /\ [Next]_vars => [\A w \in Worker, e \in Event :
            PublishAny(w, e) /\ age[w] <= Lease => ~(Completed(e) /\ Live(e))]_vars
  BY <1>1, <1>2
<1> QED BY <1>3, Invariance, PTL DEF Spec, CompletedNotRepeated

\* The alert worker implements at-least-once delivery: no message is deleted before
\* a notification of its event was accepted.
THEOREM AtLeastOnceRefined == Spec => ImplementsAtLeastOnce
<1>1. Init => Abstract!Init
  BY DEF Init, Abstract!Init
<1>2. ASSUME Inv, [Next]_vars PROVE [Abstract!Next]_(Abstract!vars)
  <2>1. CASE UNCHANGED <<arrived, deleted, notified>>
    BY <2>1 DEF Abstract!vars
  <2>2. ASSUME NEW m \in Message, Arrive(m) PROVE Abstract!Next
    <3>1. EventOf[m] \in Event
      BY AlertAssumption
    <3>2. Abstract!Store(EventOf[m])
      BY <2>2 DEF Arrive, Abstract!Store
    <3> QED BY <3>1, <3>2 DEF Abstract!Next
  <2>3. ASSUME NEW w \in Worker, NEW e \in Event, PublishAny(w, e)
        PROVE  [Abstract!Next]_(Abstract!vars)
    <3>1. notified' = notified \/ notified' = notified \cup {e}
      BY <2>3 DEF PublishAny, Publish
    <3>2. UNCHANGED <<arrived, deleted>> /\ msg[w] \in arrived /\ EventOf[msg[w]] = e
      BY <1>2, <2>3 DEF PublishAny, Publish, Works, Inv, TypeOK
    <3>3. CASE notified' = notified
      BY <3>2, <3>3 DEF Abstract!vars
    <3>4. CASE notified' = notified \cup {e}
      <4>1. Abstract!Deliver(e)
        BY <3>2, <3>4 DEF Abstract!Deliver
      <4> QED BY <4>1 DEF Abstract!Next
    <3> QED BY <3>1, <3>3, <3>4
  <2>4. ASSUME NEW w \in Worker, Acknowledge(w) PROVE Abstract!Next
    <3>1. /\ deleted' = deleted \cup {msg[w]} /\ UNCHANGED <<arrived, notified>>
          /\ pc[w] = "ack" /\ msg[w] \in arrived
      BY <1>2, <2>4 DEF Acknowledge, Inv, TypeOK
    <3>2. PICK e \in Event : e = EventOf[msg[w]] /\ e \in notified
      BY <1>2, <3>1, AlertAssumption DEF Inv, TypeOK, NotifiedFirst, Works
    <3>3. {EventOf[m] : m \in deleted'} = {EventOf[m] : m \in deleted} \cup {e}
      BY <3>1, <3>2
    <3>4. Abstract!Acknowledge(e)
      BY <3>1, <3>2, <3>3 DEF Abstract!Acknowledge
    <3> QED BY <3>4 DEF Abstract!Next
  <2> QED
    BY <1>2, <2>1, <2>2, <2>3, <2>4
       DEF Next, Tick, Expire, Receive, Process, ClaimEvent, ClaimRefused, GetStatus,
           Release, Complete, CompleteRefused, Abandon, vars
<1> QED BY <1>1, <1>2, Invariance, PTL DEF Spec, ImplementsAtLeastOnce, Abstract!Spec
=============================================================================
