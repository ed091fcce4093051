---------------------------- MODULE PortfolioProofs ----------------------------
(***************************************************************************)
(* Proofs about Portfolio: type correctness, that the outbox tells the     *)
(* history of every position, and that the service implements the atomic   *)
(* PortfolioLedger, for any sessions, portfolios and clock.                *)
(***************************************************************************)
EXTENDS Portfolio, SequenceTheorems, TLAPS

\* The times of committed events have passed.
TimesPassed == \A i \in DOMAIN outbox : outbox[i].time <= now

\* What one transaction has decided on.
Sound(c) ==
  LET x == Changing(c).position
      change == Changing(c)
  IN /\ tx[c].event.time <= now
     /\ change.type = "created" => change.portfolio \notin created
     /\ change.type = "added" =>
          /\ change.portfolio \in created /\ ~\E i \in DOMAIN outbox : outbox[i].change.position = x
          /\ change.portfolio = change.after.portfolio
          /\ tx[c].flushed => ~Holding(change.portfolio, change.after.instrument)
     /\ change.type \in {"updated", "removed"} => change.portfolio = change.before.portfolio
     /\ change.type = "updated" =>
          /\ change.after.portfolio = change.before.portfolio
          /\ change.after.instrument = change.before.instrument
     /\ x \in PositionId =>
          /\ positions[x] = change.before
          /\ \A e \in EventsOf(x) : e.time < tx[c].event.time

\* No two of them concern one position, create one portfolio, or have both flushed
\* a change of one portfolio.
Apart(c, d) ==
  /\ Changing(c).position \in PositionId => Changing(c).position # Changing(d).position
  /\ Changing(c).type = "created" /\ Changing(d).type = "created" =>
       Changing(c).portfolio # Changing(d).portfolio
  /\ tx[c].flushed /\ tx[d].flushed => Changing(c).portfolio # Changing(d).portfolio

TxInv ==
  /\ \A c \in Session : InTransaction(c) => Sound(c)
  /\ \A c, d \in Session : c # d /\ InTransaction(c) /\ InTransaction(d) => Apart(c, d)

\* Portfolios are never deleted.
LoadedExist == \A c \in Session : loaded[c] # NoPortfolio => loaded[c] \in created

Inv == TypeOK /\ TimesPassed /\ LoadedExist /\ TxInv /\ OutboxTellsHistory

-----------------------------------------------------------------------------
(* Facts about changes, events and histories.                               *)

LEMMA ChangeFacts ==
  ASSUME NEW change \in Change
  PROVE  /\ change.type \in {"created", "added", "updated", "removed"}
         /\ change.portfolio \in Portfolio
         /\ change.before \in Position \cup {NoRow} /\ change.after \in Position \cup {NoRow}
         /\ change.type = "created" =>
              change.position = NoPosition /\ change.before = NoRow /\ change.after = NoRow
         /\ change.type # "created" => change.position \in PositionId
         /\ change.type = "added" => change.before = NoRow /\ change.after \in Position
         /\ change.type = "updated" => change.before \in Position /\ change.after \in Position
         /\ change.type = "removed" => change.before \in Position /\ change.after = NoRow
         /\ change = Told(change.type, change.portfolio, change.position,
                          change.before, change.after)
BY DEF Change, Told

\* A rounded Position is a row of the same portfolio and instrument.
LEMMA StoredFacts ==
  /\ StoredRow(NoRow) = NoRow
  /\ \A row \in PositionModel : row # NoRow
  /\ \A row \in Position :
       /\ row \in PositionModel
       /\ StoredRow(row) \in PositionModel
       /\ StoredRow(row).portfolio = row.portfolio
       /\ StoredRow(row).instrument = row.instrument
<1>1. StoredRow(NoRow) = NoRow /\ \A row \in PositionModel : row # NoRow
  BY PortfolioAssumption DEF StoredRow
<1>2. \A row \in Position : row \in PositionModel /\ row # NoRow
  BY <1>1 DEF Position, PositionModel
<1>3. ASSUME NEW row \in Position
      PROVE  /\ StoredRow(row) \in PositionModel
             /\ StoredRow(row).portfolio = row.portfolio
             /\ StoredRow(row).instrument = row.instrument
  <2>1. Stored(row.quantity) \in Number /\ Stored(row.cost) \in Number
    BY PortfolioAssumption DEF Position
  <2>2. StoredRow(row) = [row EXCEPT !.quantity = Stored(row.quantity),
                                     !.cost = Stored(row.cost)]
    BY <1>2 DEF StoredRow
  <2> QED BY <2>1, <2>2 DEF Position, PositionModel
<1> QED BY <1>1, <1>2, <1>3

\* A row can become a Position unless a number was rounded to zero.
LEMMA ValidRows == \A row \in PositionModel : Valid(row) <=> row \in Position
<1>1. Number \subseteq Nat
  BY PortfolioAssumption
<1>2. SUFFICES ASSUME NEW row \in PositionModel PROVE Valid(row) <=> row \in Position
  OBVIOUS
<1>3. row.quantity \in Nat /\ row.cost \in Nat
  BY <1>1, <1>2 DEF PositionModel
<1>4. row \in Position <=> row.quantity # 0 /\ row.cost # 0
  BY <1>2 DEF Position, PositionModel
<1> QED BY <1>3, <1>4 DEF Valid

LEMMA EventFacts ==
  ASSUME NEW event \in Event
  PROVE  event.time \in 1 .. MaxTime /\ event.time \in Nat /\ event.change \in Change
BY PortfolioAssumption DEF Event

\* The event with the greatest time decides the row.
LEMMA RowAfterLatest ==
  ASSUME NEW E, NEW e \in E, \A f \in E : f.time \in Nat,
         \A f \in E : f = e \/ f.time < e.time
  PROVE  RowAfter(E) = e.change.after
<1> DEFINE g == CHOOSE h \in E : \A f \in E : f.time <= h.time
<1>1. \A f \in E : f.time <= e.time
  BY SMT
<1>2. g \in E /\ \A f \in E : f.time <= g.time
  BY <1>1, Zenon
<1>3. g = e
  BY <1>2, SMT
<1> QED BY <1>3 DEF RowAfter

\* These events of one position tell the history of this row.
Tells(E, row) ==
  /\ \A e \in E : e.change.before = StoredRow(RowAfter({f \in E : f.time < e.time}))
  /\ row = StoredRow(RowAfter(E))

LEMMA UnfoldHistory ==
  /\ OutboxTellsHistory <=> \A x \in PositionId : Tells(EventsOf(x), positions[x])
  /\ OutboxTellsHistory' <=> \A x \in PositionId : Tells(EventsOf(x)', positions'[x])
BY Zenon DEF OutboxTellsHistory, Tells, RowAfter

\* The history goes on with an event that is later than all others.
LEMMA TellsOn ==
  ASSUME NEW E, NEW event, event.time \in Nat,
         \A e \in E : e.time \in Nat /\ e.time < event.time,
         Tells(E, event.change.before)
  PROVE  Tells(E \cup {event}, StoredRow(event.change.after))
<1> DEFINE F == E \cup {event}
<1>1. RowAfter(F) = event.change.after
  <2>1. /\ event \in F
        /\ \A f \in F : f.time \in Nat
        /\ \A f \in F : f = event \/ f.time < event.time
    OBVIOUS
  <2> HIDE DEF F
  <2> QED BY <2>1, RowAfterLatest
<1>2. {f \in F : f.time < event.time} = E
  OBVIOUS
<1>3. \A e \in E : {f \in F : f.time < e.time} = {f \in E : f.time < e.time}
  OBVIOUS
<1>4. \A e \in F : e.change.before = StoredRow(RowAfter({f \in F : f.time < e.time}))
  BY <1>2, <1>3 DEF Tells
<1> QED BY <1>1, <1>4 DEF Tells

\* Steps that change neither the rows nor the outbox.
LEMMA HistoryStays ==
  ASSUME OutboxTellsHistory, UNCHANGED <<positions, outbox>>
  PROVE  OutboxTellsHistory'
<1>1. \A x \in PositionId : EventsOf(x)' = EventsOf(x)
  BY DEF EventsOf
<1> QED BY <1>1, UnfoldHistory

LEMMA Types ==
  ASSUME Inv
  PROVE  /\ \A c \in Session : InTransaction(c) =>
              /\ tx[c] \in Transaction /\ tx[c].event \in Event
              /\ Changing(c) \in Change /\ tx[c].flushed \in BOOLEAN
         /\ \A x \in PositionId : \A e \in EventsOf(x) :
              e \in Event /\ e.time \in Nat /\ e.time <= now /\ e.change.position = x
         /\ \A i \in DOMAIN outbox : outbox[i] \in Event
         /\ now \in Nat
<1>1. \A i \in DOMAIN outbox : outbox[i] \in Event
  BY DEF Inv, TypeOK
<1>2. \A c \in Session : InTransaction(c) => tx[c] \in Transaction
  BY DEF Inv, TypeOK, InTransaction
<1>3. \A c \in Session : InTransaction(c) =>
              /\ tx[c] \in Transaction /\ tx[c].event \in Event
              /\ Changing(c) \in Change /\ tx[c].flushed \in BOOLEAN
  BY <1>2, EventFacts DEF Transaction, Changing
<1>4. now \in Nat
  BY PortfolioAssumption DEF Inv, TypeOK
<1> QED BY <1>1, <1>3, <1>4, EventFacts DEF EventsOf, Inv, TimesPassed

-----------------------------------------------------------------------------
(* Deciding.                                                                *)

\* A change that may be decided on now.
Decidable(c, change) ==
  /\ change.type = "created" => change.portfolio \notin created
  /\ change.type = "added" =>
       /\ change.portfolio \in created /\ change.portfolio = change.after.portfolio
       /\ ~\E i \in DOMAIN outbox : outbox[i].change.position = change.position
  /\ change.type \in {"updated", "removed"} => change.portfolio = change.before.portfolio
  /\ change.type = "updated" =>
       /\ change.after.portfolio = change.before.portfolio
       /\ change.after.instrument = change.before.instrument
  /\ change.position \in PositionId => positions[change.position] = change.before
  /\ \A d \in Session \ {c} : InTransaction(d) =>
       /\ change.position \in PositionId => change.position # Changing(d).position
       /\ change.type = "created" => change.portfolio # Changing(d).portfolio

LEMMA DecideStep ==
  ASSUME Inv, NEW c \in Session, NEW change \in Change, Decidable(c, change),
         Decide(c, change)
  PROVE  Inv'
<1> DEFINE event == [time |-> now + 1, change |-> change]
<1>1. /\ ~InTransaction(c) /\ now \in Nat /\ now < MaxTime /\ now' = now + 1
      /\ tx' = [tx EXCEPT ![c] = [event |-> event, flushed |-> FALSE]]
      /\ loaded' = [loaded EXCEPT ![c] = NoPortfolio]
      /\ UNCHANGED <<created, positions, outbox>>
  BY Types DEF Decide, rows
<1>2. event \in Event /\ event.time = now + 1 /\ event.change = change
  BY <1>1, PortfolioAssumption DEF Event
<1>3. [event |-> event, flushed |-> FALSE] \in Transaction
  BY <1>2 DEF Transaction
<1>4. TypeOK'
  BY <1>1, <1>3, PortfolioAssumption DEF Inv, TypeOK
<1>5. /\ tx'[c] = [event |-> event, flushed |-> FALSE] /\ Changing(c)' = change
      /\ InTransaction(c)'
      /\ \A d \in Session \ {c} : tx'[d] = tx[d]
  BY <1>1, <1>2, <1>3, PortfolioAssumption DEF Inv, TypeOK, Changing, InTransaction
<1>6. TimesPassed' /\ LoadedExist'
  BY <1>1, Types, EventFacts, PortfolioAssumption DEF Inv, TypeOK, TimesPassed, LoadedExist
<1>7. OutboxTellsHistory'
  BY <1>1, HistoryStays DEF Inv
<1>8. Sound(c)'
  <2>1. tx'[c].event.time = now + 1 /\ tx'[c].flushed = FALSE
    BY <1>2, <1>5
  <2>2. change.position \in PositionId =>
          \A e \in EventsOf(change.position)' : e.time < tx'[c].event.time
    BY <1>1, <2>1, Types DEF EventsOf
  <2> QED BY <1>1, <1>5, <2>1, <2>2 DEF Sound, Decidable
<1>9. ASSUME NEW d \in Session \ {c}, InTransaction(d)'
      PROVE  Sound(d)' /\ Apart(c, d)' /\ Apart(d, c)'
  <2>1. InTransaction(d) /\ Changing(d)' = Changing(d) /\ tx'[d] = tx[d] /\ Sound(d)
    BY <1>5, <1>9 DEF InTransaction, Changing, Inv, TxInv
  <2>2. Sound(d)'
    BY <1>1, <2>1, Types, EventFacts DEF Sound, EventsOf, Holding
  <2>3. Apart(c, d)' /\ Apart(d, c)'
    BY <1>5, <2>1 DEF Apart, Decidable
  <2> QED BY <2>2, <2>3
<1>10. ASSUME NEW d \in Session \ {c}, NEW e \in Session \ {c}, d # e,
              InTransaction(d)', InTransaction(e)'
       PROVE  Apart(d, e)'
  BY <1>5, <1>10 DEF InTransaction, Changing, Inv, TxInv, Apart
<1> QED BY <1>4, <1>6, <1>7, <1>8, <1>9, <1>10 DEF Inv, TxInv

LEMMA CreateStep ==
  ASSUME Inv, NEW c \in Session, NEW p \in Portfolio, CreatePortfolio(c, p)
  PROVE  Inv'
<1> DEFINE change == Told("created", p, NoPosition, NoRow, NoRow)
<1>1. change \in Change
  BY DEF Told, Change
<1>2. Decidable(c, change)
  BY PortfolioAssumption DEF CreatePortfolio, Decidable, Told
<1> QED BY <1>1, <1>2, DecideStep DEF CreatePortfolio

LEMMA AddStep ==
  ASSUME Inv, NEW c \in Session, NEW x \in PositionId, NEW row \in Position,
         AddPosition(c, x, row)
  PROVE  Inv'
<1> DEFINE change == Told("added", row.portfolio, x, NoRow, row)
<1>1. change \in Change
  BY DEF Told, Change, Position
<1>2. EventsOf(x) = {}
  BY DEF AddPosition, Used, EventsOf
<1>3. positions[x] = NoRow
  BY <1>2, StoredFacts DEF Inv, OutboxTellsHistory, RowAfter
<1>4. Decidable(c, change)
  <2>1. loaded[c] # NoPortfolio /\ row.portfolio = loaded[c]
    BY PortfolioAssumption DEF AddPosition, Position
  <2>2. row.portfolio \in created
    BY <2>1 DEF Inv, LoadedExist
  <2> QED BY <1>3, <2>2, Types DEF AddPosition, Used, Decidable, Told, Inv, TxInv, Sound
<1> QED BY <1>1, <1>4, DecideStep DEF AddPosition

\* A row that is there, valid and not locked is a Position in the hands of no
\* transaction.
LEMMA Unlocked ==
  ASSUME Inv, NEW c \in Session, NEW x \in PositionId, Selectable(c, x)
  PROVE  /\ positions[x] \in Position
         /\ \A d \in Session : InTransaction(d) => Changing(d).position # x
<1>1. positions[x] \in Position /\ positions[x] # NoRow /\ ~PositionLocked(x)
  BY ValidRows DEF Inv, TypeOK, Selectable
<1>2. ASSUME NEW d \in Session, InTransaction(d), Changing(d).position = x PROVE FALSE
  <2>1. Changing(d).type = "added"
    BY <1>1, <1>2, Types, ChangeFacts, PortfolioAssumption DEF PositionLocked
  <2>2. positions[x] = NoRow
    BY <1>2, <2>1, Types, ChangeFacts DEF Inv, TxInv, Sound
  <2> QED BY <1>1, <2>2
<1> QED BY <1>1, <1>2

LEMMA UpdateStep ==
  ASSUME Inv, NEW c \in Session, NEW x \in PositionId,
         NEW quantity \in Quantity \cup {NotGiven}, NEW cost \in Cost \cup {NotGiven},
         UpdatePosition(c, x, quantity, cost)
  PROVE  Inv'
<1> DEFINE after == Updated(positions[x], quantity, cost)
           change == Told("updated", positions[x].portfolio, x, positions[x], after)
<1>1. positions[x] \in Position /\ \A d \in Session : InTransaction(d) => Changing(d).position # x
  BY Unlocked DEF UpdatePosition
<1>2. /\ after \in Position
      /\ after.portfolio = positions[x].portfolio
      /\ after.instrument = positions[x].instrument
  <2>1. /\ Given(quantity, positions[x].quantity) \in Number \ {0}
        /\ Given(cost, positions[x].cost) \in Number \ {0}
    BY <1>1, PortfolioAssumption DEF Given, Position
  <2> QED BY <1>1, <2>1 DEF Updated, Position
<1>3. change \in Change /\ positions[x].portfolio \in Portfolio
  BY <1>1, <1>2 DEF Told, Change, Position
<1>4. Decidable(c, change)
  BY <1>1, <1>2 DEF Decidable, Told
<1> QED BY <1>3, <1>4, DecideStep DEF UpdatePosition

LEMMA DeleteStep ==
  ASSUME Inv, NEW c \in Session, NEW x \in PositionId, DeletePosition(c, x)
  PROVE  Inv'
<1> DEFINE change == Told("removed", positions[x].portfolio, x, positions[x], NoRow)
<1>1. positions[x] \in Position /\ \A d \in Session : InTransaction(d) => Changing(d).position # x
  BY Unlocked DEF DeletePosition
<1>2. change \in Change
  BY <1>1 DEF Told, Change, Position
<1>3. Decidable(c, change)
  BY <1>1 DEF Decidable, Told
<1> QED BY <1>2, <1>3, DecideStep DEF DeletePosition

-----------------------------------------------------------------------------
(* Flushing, committing and rolling back.                                   *)

\* Ending one transaction leaves the others as they are.
LEMMA EndStep ==
  ASSUME Inv, NEW c \in Session, End(c), UNCHANGED <<rows, now, loaded>>
  PROVE  Inv'
<1>1. /\ tx' = [tx EXCEPT ![c] = Idle]
      /\ UNCHANGED <<created, positions, outbox, now, loaded>>
  BY DEF End, rows
<1>2. ~InTransaction(c)' /\ \A d \in Session \ {c} : tx'[d] = tx[d]
  BY <1>1 DEF Inv, TypeOK, InTransaction
<1>3. TypeOK' /\ TimesPassed' /\ LoadedExist'
  BY <1>1 DEF Inv, TypeOK, TimesPassed, LoadedExist
<1>4. OutboxTellsHistory'
  BY <1>1, HistoryStays DEF Inv
<1>5. ASSUME NEW d \in Session, InTransaction(d)' PROVE Sound(d)'
  <2>1. InTransaction(d) /\ Changing(d)' = Changing(d) /\ tx'[d] = tx[d] /\ Sound(d)
    BY <1>2, <1>5 DEF InTransaction, Changing, Inv, TxInv
  <2> QED BY <1>1, <2>1 DEF Sound, EventsOf, Holding
<1>6. \A d, e \in Session : d # e /\ InTransaction(d)' /\ InTransaction(e)' => Apart(d, e)'
  BY <1>2 DEF InTransaction, Changing, Inv, TxInv, Apart
<1> QED BY <1>3, <1>4, <1>5, <1>6 DEF Inv, TxInv

LEMMA FlushStep == ASSUME Inv, NEW c \in Session, Flush(c) PROVE Inv'
<1>1. /\ InTransaction(c) /\ ~PortfolioLocked(Changing(c).portfolio) /\ ~Duplicate(c)
      /\ tx' = [tx EXCEPT ![c].flushed = TRUE]
      /\ UNCHANGED <<created, positions, outbox, now, loaded>>
  BY DEF Flush, rows
<1>2. tx[c] \in Transaction /\ tx'[c] = [tx[c] EXCEPT !.flushed = TRUE]
  BY <1>1, Types DEF Inv, TypeOK
<1>3. /\ tx'[c] \in Transaction /\ tx'[c].event = tx[c].event /\ tx'[c].flushed
      /\ Changing(c)' = Changing(c)
      /\ \A d \in Session \ {c} : tx'[d] = tx[d] /\ Changing(d)' = Changing(d)
  BY <1>1, <1>2 DEF Inv, TypeOK, Transaction, Changing
<1>4. TypeOK' /\ TimesPassed' /\ LoadedExist'
  BY <1>1, <1>3 DEF Inv, TypeOK, TimesPassed, LoadedExist
<1>5. OutboxTellsHistory'
  BY <1>1, HistoryStays DEF Inv
<1>6. Sound(c)'
  BY <1>1, <1>3 DEF Inv, TxInv, Sound, Duplicate, EventsOf, Holding
<1>7. ASSUME NEW d \in Session \ {c}, InTransaction(d)'
      PROVE  InTransaction(d) /\ Sound(d)' /\ Apart(c, d)' /\ Apart(d, c)'
  <2>1. InTransaction(d) /\ Sound(d) /\ Apart(c, d) /\ Apart(d, c)
    BY <1>1, <1>3, <1>7 DEF InTransaction, Inv, TxInv
  <2>2. Sound(d)'
    BY <1>1, <1>3, <2>1 DEF Sound, EventsOf, Holding
  <2>3. tx[d].flushed => Changing(c).portfolio # Changing(d).portfolio
    BY <1>1, <2>1 DEF PortfolioLocked
  <2> QED BY <1>3, <2>1, <2>2, <2>3 DEF Apart
<1>8. ASSUME NEW d \in Session \ {c}, NEW e \in Session \ {c}, d # e,
             InTransaction(d)', InTransaction(e)'
      PROVE  Apart(d, e)'
  BY <1>3, <1>7, <1>8 DEF Inv, TxInv, Apart
<1> QED BY <1>4, <1>5, <1>6, <1>7, <1>8 DEF Inv, TxInv

\* A commit appends its event to the history of its position and to no other.
LEMMA CommitHistory ==
  ASSUME Inv, NEW c \in Session, Commit(c)
  PROVE  /\ outbox' = Append(outbox, tx[c].event)
         /\ \A i \in DOMAIN outbox : i \in DOMAIN outbox' /\ outbox'[i] = outbox[i]
         /\ \A i \in DOMAIN outbox' :
              i \in DOMAIN outbox \/ outbox'[i] = tx[c].event
         /\ \A x \in PositionId :
              EventsOf(x)' = IF x = Changing(c).position
                               THEN EventsOf(x) \cup {tx[c].event} ELSE EventsOf(x)
<1>1. /\ outbox' = Append(outbox, tx[c].event) /\ outbox \in Seq(Event)
      /\ tx[c].event \in Event
  BY Types DEF Commit, Inv, TypeOK
<1>2. /\ DOMAIN outbox = 1 .. Len(outbox) /\ Len(outbox) \in Nat
      /\ DOMAIN outbox' = 1 .. Len(outbox) + 1
      /\ outbox'[Len(outbox) + 1] = tx[c].event
      /\ \A i \in 1 .. Len(outbox) : outbox'[i] = outbox[i]
  BY <1>1
<1>3. /\ \A i \in DOMAIN outbox : i \in DOMAIN outbox' /\ outbox'[i] = outbox[i]
      /\ \A i \in DOMAIN outbox' :
           i \in DOMAIN outbox \/ outbox'[i] = tx[c].event
      /\ \E i \in DOMAIN outbox' : outbox'[i] = tx[c].event
  BY <1>2
<1>4. \A x \in PositionId :
              EventsOf(x)' = IF x = Changing(c).position
                               THEN EventsOf(x) \cup {tx[c].event} ELSE EventsOf(x)
  BY <1>3 DEF EventsOf, Changing
<1> QED BY <1>1, <1>3, <1>4

LEMMA CommitStep == ASSUME Inv, NEW c \in Session, Commit(c) PROVE Inv'
<1> DEFINE x == Changing(c).position
           event == tx[c].event
<1>1. /\ InTransaction(c) /\ tx[c].flushed
      /\ created' = IF Changing(c).type = "created"
                      THEN created \cup {Changing(c).portfolio} ELSE created
      /\ positions' = [y \in PositionId |-> IF y = x THEN StoredRow(Changing(c).after) ELSE positions[y]]
      /\ tx' = [tx EXCEPT ![c] = Idle] /\ now' = now /\ loaded' = loaded
      /\ Sound(c)
  BY DEF Commit, End, Inv, TxInv
<1>2. /\ event \in Event /\ event.change = Changing(c) /\ Changing(c) \in Change
      /\ event.time \in Nat /\ event.time <= now
  BY <1>1, Types, EventFacts DEF Changing, Sound
<1>3. ~InTransaction(c)' /\ \A d \in Session \ {c} : tx'[d] = tx[d]
  BY <1>1 DEF Inv, TypeOK, InTransaction
<1>4. TypeOK'
  <2>1. outbox' \in Seq(Event)
    BY <1>2, CommitHistory DEF Inv, TypeOK
  <2>2. StoredRow(Changing(c).after) \in PositionModel \cup {NoRow}
    BY <1>2, ChangeFacts, StoredFacts
  <2> QED BY <1>1, <1>2, <2>1, <2>2, ChangeFacts DEF Inv, TypeOK
<1>5. TimesPassed' /\ LoadedExist'
  BY <1>1, <1>2, CommitHistory DEF Inv, TimesPassed, LoadedExist
<1>6. OutboxTellsHistory'
  <2>1. ASSUME NEW y \in PositionId, y # x
        PROVE  Tells(EventsOf(y)', positions'[y])
    BY <1>1, <2>1, CommitHistory, UnfoldHistory DEF Inv
  <2>2. ASSUME NEW y \in PositionId, y = x
        PROVE  Tells(EventsOf(y)', positions'[y])
    <3>1. EventsOf(y)' = EventsOf(y) \cup {event}
      BY <2>2, CommitHistory
    <3>2. \A e \in EventsOf(y) : e.time < event.time /\ e.time \in Nat
      BY <1>1, <2>2, Types DEF Sound
    <3>3. positions[y] = event.change.before /\ positions'[y] = StoredRow(event.change.after)
      BY <1>1, <1>2, <2>2 DEF Sound
    <3>4. Tells(EventsOf(y), event.change.before)
      BY <2>2, <3>3, UnfoldHistory DEF Inv
    <3> QED BY <1>2, <3>1, <3>2, <3>3, <3>4, TellsOn
  <2> QED BY <2>1, <2>2, UnfoldHistory
<1>7. ASSUME NEW d \in Session, InTransaction(d)' PROVE Sound(d)'
  <2>1. /\ d # c /\ InTransaction(d) /\ Changing(d)' = Changing(d) /\ tx'[d] = tx[d]
        /\ Sound(d) /\ Apart(c, d) /\ Apart(d, c)
    BY <1>1, <1>3, <1>7 DEF InTransaction, Changing, Inv, TxInv
  <2>2. Changing(d) \in Change
    BY <2>1, Types
  <2>3. Changing(d).type # "created" => Changing(d).position # x
    BY <2>1, <2>2, ChangeFacts DEF Apart
  <2>4. Changing(d).position \in PositionId =>
          /\ Changing(d).position # x
          /\ EventsOf(Changing(d).position)' = EventsOf(Changing(d).position)
          /\ positions'[Changing(d).position] = positions[Changing(d).position]
    BY <1>1, <2>1, CommitHistory DEF Apart
  <2>5. Changing(d).type = "created" => Changing(d).portfolio \notin created'
    BY <1>1, <2>1 DEF Sound, Apart
  <2>6. Changing(d).type = "added" =>
          /\ Changing(d).portfolio \in created'
          /\ ~\E i \in DOMAIN outbox' : outbox'[i].change.position = Changing(d).position
    BY <1>1, <1>2, <2>1, <2>3, CommitHistory DEF Sound
  <2>7. Changing(d).type = "added" /\ tx[d].flushed =>
          ~Holding(Changing(d).portfolio, Changing(d).after.instrument)'
    <3>1. SUFFICES ASSUME Changing(d).type = "added", tx[d].flushed, NEW y \in PositionId,
                          positions'[y] # NoRow,
                          positions'[y].portfolio = Changing(d).portfolio,
                          positions'[y].instrument = Changing(d).after.instrument
                   PROVE  FALSE
      BY <2>1 DEF Holding
    <3>2. CASE y # x
      BY <1>1, <2>1, <3>1, <3>2 DEF Sound, Holding
    <3>3. CASE y = x
      <4>1. positions'[y] = StoredRow(Changing(c).after)
        BY <1>1, <3>3
      <4>2. Changing(c).after.portfolio = Changing(c).portfolio
        BY <1>1, <1>2, <3>1, <4>1, ChangeFacts, StoredFacts DEF Sound
      <4>3. positions'[y].portfolio = Changing(c).portfolio
        BY <1>2, <3>1, <4>1, <4>2, ChangeFacts, StoredFacts
      <4> QED BY <1>1, <2>1, <3>1, <4>3 DEF Apart
    <3> QED BY <3>2, <3>3
  <2> QED BY <1>1, <2>1, <2>4, <2>5, <2>6, <2>7 DEF Sound
<1>8. \A d, e \in Session : d # e /\ InTransaction(d)' /\ InTransaction(e)' => Apart(d, e)'
  BY <1>3 DEF InTransaction, Changing, Inv, TxInv, Apart
<1> QED BY <1>4, <1>5, <1>6, <1>7, <1>8 DEF Inv, TxInv

LEMMA InitInv == Init => Inv
<1> SUFFICES ASSUME Init PROVE Inv
  OBVIOUS
<1>1. \A x \in PositionId : EventsOf(x) = {}
  BY DEF Init, EventsOf
<1>2. OutboxTellsHistory
  BY <1>1, StoredFacts DEF Init, OutboxTellsHistory, RowAfter
<1>3. TypeOK /\ TimesPassed /\ LoadedExist /\ TxInv
  BY PortfolioAssumption DEF Init, TypeOK, TimesPassed, LoadedExist, TxInv, InTransaction
<1> QED BY <1>2, <1>3 DEF Inv

\* Steps that only load portfolios, and stuttering.
LEMMA LoadStep ==
  ASSUME Inv, UNCHANGED <<rows, now, tx>>,
         loaded' \in [Session -> Portfolio \cup {NoPortfolio}],
         \A c \in Session : loaded'[c] # NoPortfolio => loaded'[c] \in created
  PROVE  Inv'
<1>1. UNCHANGED <<created, positions, outbox, now, tx>>
  BY DEF rows
<1>2. TypeOK' /\ TimesPassed' /\ LoadedExist'
  BY <1>1 DEF Inv, TypeOK, TimesPassed, LoadedExist
<1>3. OutboxTellsHistory'
  BY <1>1, HistoryStays DEF Inv
<1>4. TxInv'
  BY <1>1 DEF Inv, TxInv, InTransaction, Sound, Apart, Changing, EventsOf, Holding
<1> QED BY <1>2, <1>3, <1>4 DEF Inv

LEMMA Stutter == ASSUME Inv, UNCHANGED vars PROVE Inv'
BY LoadStep DEF vars, Inv, TypeOK, LoadedExist

LEMMA Invariance == Spec => []Inv
<1>1. ASSUME Inv, [Next]_vars PROVE Inv'
  <2>1. ASSUME NEW c \in Session, Refuse(c) \/ Abort(c) PROVE Inv'
    BY <1>1, <2>1, EndStep DEF Refuse, Abort
  <2>2. ASSUME NEW c \in Session, NEW p \in Portfolio, GetPortfolio(c, p) PROVE Inv'
    BY <1>1, <2>2, LoadStep DEF GetPortfolio, Inv, TypeOK, LoadedExist
  <2>3. ASSUME NEW c \in Session, Return(c) PROVE Inv'
    BY <1>1, <2>3, LoadStep DEF Return, Inv, TypeOK, LoadedExist
  <2>4. ASSUME NEW c \in Session, NEW x \in PositionId, NEW p \in Portfolio,
               NEW i \in Instrument, NEW quantity \in Quantity, NEW cost \in Cost,
               AddPosition(c, x, [portfolio |-> p, instrument |-> i,
                                  quantity |-> quantity, cost |-> cost])
        PROVE  Inv'
    <3>1. [portfolio |-> p, instrument |-> i, quantity |-> quantity, cost |-> cost]
            \in Position
      BY PortfolioAssumption DEF Position
    <3> QED BY <1>1, <2>4, <3>1, AddStep
  <2> QED
    BY <1>1, <2>1, <2>2, <2>3, <2>4, CreateStep, UpdateStep, DeleteStep, FlushStep,
       CommitStep, Stutter DEF Next
<1> QED BY <1>1, InitInv, PTL DEF Spec

-----------------------------------------------------------------------------

\* Every reachable state is well typed; no event lacks the row it tells of.
THEOREM TypeCorrect == Spec => []TypeOK
BY Invariance, PTL DEF Inv

\* The events of a position, in occurred_at order, tell its history without a gap.
THEOREM HistoryTold == Spec => []OutboxTellsHistory
BY Invariance, PTL DEF Inv

\* Nothing but a commit changes a row.
LEMMA OnlyCommits ==
  ASSUME [Next]_vars
  PROVE  (\E c \in Session : Commit(c)) \/ UNCHANGED rows
<1>1. ASSUME NEW c \in Session, NEW p \in Portfolio,
             GetPortfolio(c, p) \/ CreatePortfolio(c, p)
      PROVE  UNCHANGED rows
  BY <1>1 DEF GetPortfolio, CreatePortfolio, Decide
<1>2. ASSUME NEW c \in Session, NEW x \in PositionId, NEW row, AddPosition(c, x, row)
      PROVE  UNCHANGED rows
  BY <1>2 DEF AddPosition, Decide
<1>3. ASSUME NEW c \in Session, NEW x \in PositionId, NEW quantity, NEW cost,
             UpdatePosition(c, x, quantity, cost)
      PROVE  UNCHANGED rows
  BY <1>3 DEF UpdatePosition, Decide
<1>4. ASSUME NEW c \in Session, NEW x \in PositionId, DeletePosition(c, x)
      PROVE  UNCHANGED rows
  BY <1>4 DEF DeletePosition, Decide
<1>5. ASSUME NEW c \in Session, Flush(c) \/ Refuse(c) \/ Abort(c) \/ Return(c)
      PROVE  UNCHANGED rows
  BY <1>5 DEF Flush, Refuse, Abort, Return
<1>6. ASSUME UNCHANGED vars PROVE UNCHANGED rows
  BY <1>6 DEF vars
<1> QED BY <1>1, <1>2, <1>3, <1>4, <1>5, <1>6 DEF Next

\* What was rounded to zero is out of every request's reach.
THEOREM UnreadableForGood == Spec => UnreadableStays
<1>1. ASSUME Inv, [Next]_vars PROVE [\A p \in created : ~Readable(p) => ~Readable(p)']_vars
  <2>1. SUFFICES ASSUME NEW x \in PositionId, positions[x] # NoRow, ~Valid(positions[x])
                 PROVE  positions'[x] = positions[x]
    BY DEF Readable, Valid
  <2>2. ASSUME NEW c \in Session, Commit(c) PROVE positions'[x] = positions[x]
    <3>1. /\ Changing(c) \in Change /\ Sound(c)
          /\ positions'[x] = IF x = Changing(c).position
                               THEN StoredRow(Changing(c).after) ELSE positions[x]
      BY <1>1, <2>2, Types DEF Commit, Inv, TxInv
    <3>2. ASSUME x = Changing(c).position PROVE FALSE
      <4>1. positions[x] = Changing(c).before
        BY <3>1, <3>2 DEF Sound
      <4>2. positions[x] \in Position
        BY <2>1, <3>1, <4>1, ChangeFacts
      <4> QED BY <2>1, <4>2, ValidRows, StoredFacts
    <3> QED BY <3>1, <3>2
  <2>3. \/ \E c \in Session : Commit(c)
        \/ UNCHANGED positions
    BY <1>1, OnlyCommits DEF rows
  <2> QED BY <2>2, <2>3
<1> QED BY <1>1, Invariance, PTL DEF Spec, UnreadableStays

-----------------------------------------------------------------------------
(* The service implements the ledger.                                       *)

Log == [i \in DOMAIN outbox |-> outbox[i].change]

\* Only a commit moves the ledger.
LEMMA LedgerStays ==
  ASSUME UNCHANGED rows
  PROVE  UNCHANGED <<created, positions, Log>>
BY DEF rows, Log

LEMMA LogGrows ==
  ASSUME Inv, NEW c \in Session, Commit(c)
  PROVE  /\ Log' = Append(Log, Changing(c))
         /\ \A i \in DOMAIN Log : i \in DOMAIN outbox /\ Log[i] = outbox[i].change
<1>1. /\ outbox' = Append(outbox, tx[c].event) /\ outbox \in Seq(Event)
      /\ tx[c].event \in Event
  BY Types DEF Commit, Inv, TypeOK
<1>2. /\ DOMAIN outbox = 1 .. Len(outbox) /\ Len(outbox) \in Nat
      /\ DOMAIN outbox' = 1 .. Len(outbox) + 1
      /\ outbox'[Len(outbox) + 1] = tx[c].event
      /\ \A i \in 1 .. Len(outbox) : outbox'[i] = outbox[i]
  BY <1>1
<1>3. /\ Log \in Seq(Change) /\ Len(Log) = Len(outbox)
      /\ \A i \in 1 .. Len(outbox) : Log[i] = outbox[i].change
  BY <1>1, <1>2, EventFacts DEF Log
<1>4. /\ Log' \in Seq(Change) /\ Len(Log') = Len(outbox) + 1
      /\ \A i \in 1 .. Len(outbox) + 1 : Log'[i] = outbox'[i].change
  <2>1. outbox' \in Seq(Event)
    BY <1>1
  <2> QED BY <1>2, <2>1, EventFacts DEF Log
<1>5. /\ Changing(c) \in Change
      /\ Append(Log, Changing(c)) \in Seq(Change)
      /\ Len(Append(Log, Changing(c))) = Len(outbox) + 1
      /\ \A i \in 1 .. Len(outbox) + 1 :
           Append(Log, Changing(c))[i] = IF i = Len(outbox) + 1 THEN Changing(c) ELSE Log[i]
  BY <1>1, <1>3, EventFacts DEF Changing
<1>6. \A i \in 1 .. Len(outbox) + 1 :
        outbox'[i].change = IF i = Len(outbox) + 1 THEN Changing(c) ELSE Log[i]
  BY <1>2, <1>3 DEF Changing
<1>7. Log' = Append(Log, Changing(c))
  <2>1. \A i \in 1 .. Len(Log') : Log'[i] = Append(Log, Changing(c))[i]
    BY <1>2, <1>4, <1>5, <1>6
  <2> HIDE DEF Log
  <2> QED BY <1>4, <1>5, <2>1, SeqEqual
<1> QED BY <1>2, <1>3, <1>7

LEMMA CommitImplements ==
  ASSUME Inv, NEW c \in Session, Commit(c)
  PROVE  Ledger!Next
<1> DEFINE change == Changing(c)
<1>1. /\ InTransaction(c) /\ tx[c].flushed /\ Sound(c)
      /\ created' = IF change.type = "created"
                      THEN created \cup {change.portfolio} ELSE created
      /\ positions' = [y \in PositionId |->
                         IF y = change.position THEN StoredRow(change.after) ELSE positions[y]]
  BY DEF Commit, Inv, TxInv
<1>2. change \in Change
  BY <1>1, Types
<1>3. positions \in [PositionId -> PositionModel \cup {NoRow}]
  BY DEF Inv, TypeOK
<1>4. CASE change.type = "created"
  <2>1. change.portfolio \in Portfolio /\ change.portfolio \notin created
    BY <1>1, <1>2, <1>4, ChangeFacts DEF Sound
  <2>2. positions' = positions
    BY <1>1, <1>2, <1>3, <1>4, ChangeFacts, PortfolioAssumption
  <2>3. change = Ledger!Told("created", change.portfolio, NoPosition, NoRow, NoRow)
    BY <1>2, <1>4, ChangeFacts DEF Told, Ledger!Told
  <2>4. ASSUME NEW p \in Portfolio, p = change.portfolio PROVE Ledger!Create(p)
    BY <2>4, <1>1, <1>4, <2>1, <2>2, <2>3, LogGrows DEF Log, Ledger!Create
  <2> QED BY <2>1, <2>4 DEF Ledger!Next
<1>5. CASE change.type = "added"
  <2>1. /\ change.position \in PositionId /\ change.after \in Position /\ change.before = NoRow
        /\ change.after.portfolio \in created /\ change.portfolio = change.after.portfolio
        /\ ~Holding(change.after.portfolio, change.after.instrument)
    BY <1>1, <1>2, <1>5, ChangeFacts DEF Sound
  <2>2. ~Ledger!Used(change.position)
    BY <1>1, <1>5, LogGrows DEF Sound, Ledger!Used, Log
  <2>3. ~Ledger!Holding(change.after.portfolio, change.after.instrument)
    BY <2>1 DEF Holding, Ledger!Holding
  <2>4. change = Ledger!Told("added", change.after.portfolio, change.position,
                             NoRow, change.after)
    BY <1>2, <1>5, <2>1, ChangeFacts DEF Told, Ledger!Told
  <2>5. positions' = [positions EXCEPT ![change.position] = Ledger!StoredRow(change.after)]
    <3>1. StoredRow(change.after) = Ledger!StoredRow(change.after)
      BY <2>1, StoredFacts DEF StoredRow, Ledger!StoredRow, Stored, Ledger!Stored
    <3> QED BY <1>1, <1>3, <3>1
  <2>6. ASSUME NEW x \in PositionId, NEW row \in Position,
               x = change.position, row = change.after
        PROVE  Ledger!Add(x, row)
    BY <2>6, <1>1, <1>5, <2>1, <2>2, <2>3, <2>4, <2>5, LogGrows DEF Log, Ledger!Add
  <2> QED BY <2>1, <2>6 DEF Ledger!Next, Ledger!Position, Position
<1>6. CASE change.type \in {"updated", "removed"}
  <2>1. /\ change.position \in PositionId /\ change.before \in Position
        /\ positions[change.position] = change.before
        /\ change.portfolio = change.before.portfolio
        /\ change.before # NoRow /\ created' = created
    BY <1>1, <1>2, <1>6, ChangeFacts, StoredFacts DEF Sound
  <2>2. CASE change.type = "updated"
    <3>1. /\ change.after \in Position
          /\ change.after.portfolio = change.before.portfolio
          /\ change.after.instrument = change.before.instrument
      BY <1>1, <1>2, <2>2, ChangeFacts DEF Sound
    <3>2. change.after = [change.before EXCEPT !.quantity = change.after.quantity,
                                               !.cost = change.after.cost]
      BY <2>1, <3>1 DEF Position
    <3>3. StoredRow(change.after) =
            [change.before EXCEPT !.quantity = Ledger!Stored(change.after.quantity),
                                  !.cost = Ledger!Stored(change.after.cost)]
      <4>1. change.after # NoRow
        BY <3>1, StoredFacts
      <4> QED BY <2>1, <3>1, <3>2, <4>1 DEF StoredRow, Stored, Ledger!Stored, Position
    <3>4. positions' =
            [positions EXCEPT ![change.position].quantity = Ledger!Stored(change.after.quantity),
                              ![change.position].cost = Ledger!Stored(change.after.cost)]
      BY <1>1, <1>3, <2>1, <3>3
    <3>5. change = Ledger!Told("updated", positions[change.position].portfolio,
                     change.position, positions[change.position],
                     [positions[change.position] EXCEPT !.quantity = change.after.quantity,
                                                        !.cost = change.after.cost])
      BY <1>2, <2>1, <2>2, <3>2, ChangeFacts DEF Told, Ledger!Told
    <3>6. change.after.quantity \in Number \ {0} /\ change.after.cost \in Number \ {0}
      BY <3>1 DEF Position
    <3>7. ASSUME NEW x \in PositionId, NEW q \in Number \ {0}, NEW k \in Number \ {0},
                 x = change.position, q = change.after.quantity, k = change.after.cost
          PROVE  Ledger!Update(x, q, k)
      BY <3>4, <3>5, <3>7, <2>1, LogGrows DEF Log, Ledger!Update
    <3> QED BY <2>1, <3>6, <3>7 DEF Ledger!Next
  <2>3. CASE change.type = "removed"
    <3>1. change.after = NoRow
      BY <1>2, <2>3, ChangeFacts
    <3>2. positions' = [positions EXCEPT ![change.position] = NoRow]
      BY <1>1, <1>3, <3>1, StoredFacts
    <3>3. change = Ledger!Told("removed", positions[change.position].portfolio,
                     change.position, positions[change.position], NoRow)
      BY <1>2, <2>1, <2>3, <3>1, ChangeFacts DEF Told, Ledger!Told
    <3>4. ASSUME NEW x \in PositionId, x = change.position PROVE Ledger!Remove(x)
      BY <3>4, <2>1, <3>2, <3>3, LogGrows DEF Log, Ledger!Remove
    <3> QED BY <2>1, <3>4 DEF Ledger!Next
  <2> QED BY <1>6, <2>2, <2>3
<1> QED BY <1>2, <1>4, <1>5, <1>6, ChangeFacts

\* Concurrent requests look like atomic operations, each with its event.
THEOREM LedgerRefined == Spec => ImplementsLedger
<1>1. Init => Ledger!Init
  BY DEF Init, Ledger!Init
<1>2. ASSUME Inv, [Next]_vars PROVE [Ledger!Next]_(Ledger!vars)
  <2>1. ASSUME NEW c \in Session, Commit(c) PROVE Ledger!Next
    BY <1>2, <2>1, CommitImplements
  <2>2. ASSUME UNCHANGED rows PROVE UNCHANGED Ledger!vars
    BY <2>2, LedgerStays DEF Ledger!vars, Log
  <2>3. \/ \E c \in Session : Commit(c)
        \/ UNCHANGED rows
    BY <1>2, OnlyCommits
  <2> QED BY <2>1, <2>2, <2>3
<1> QED BY <1>1, <1>2, Invariance, PTL DEF Spec, ImplementsLedger, Ledger!Spec
=============================================================================
