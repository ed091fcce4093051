------------------------------- MODULE Portfolio -------------------------------
(***************************************************************************)
(* The portfolio service and the outbox rows it writes:                    *)
(* services/api/portfolio/service.py, libs/database/repositories/          *)
(* portfolio.py, libs/events/portfolio.py, SqlAlchemyUnitOfWork.           *)
(*                                                                         *)
(* Every operation is one PostgreSQL transaction under READ COMMITTED, run *)
(* by a session of an API process.  It loads the portfolio with all its    *)
(* positions.  An update or a removal then locks the position row; an      *)
(* addition only looks whether the instrument is held.  The new row is     *)
(* built and the event's occurred_at read from the clock.  The flush takes *)
(* the portfolio row first (_touch_portfolio) and the event is added and   *)
(* committed with the change.  An error at any point rolls everything back.*)
(*                                                                         *)
(* A number that is stored keeps ten decimals: the event tells the number  *)
(* of the request, the row holds what NUMERIC(38, 10) makes of it.         *)
(*                                                                         *)
(* The clock is the one of all API processes and never shows a time twice. *)
(***************************************************************************)
EXTENDS Naturals, Sequences

CONSTANTS
  Session,       \* API requests that run at the same time
  Portfolio, Instrument,
  PositionId,    \* position ids uuid4 hands out: bounds the additions
  Number,        \* numbers, in a unit finer than a row's last digit
  Digit,         \* a row's last digit, in that unit
  Quantity, Cost,  \* the numbers requests give
  NotGiven,      \* a field of an update that is None
  NoPortfolio,   \* a session that has loaded no portfolio
  NoPosition,    \* an event about the portfolio itself
  NoRow,         \* no row with this position id
  Idle,          \* a session outside any transaction
  MaxTime        \* bound on the clock

\* The domain model, whose validators ask for positive numbers, and the table's
\* row, which has no such constraint.
Position == [portfolio : Portfolio, instrument : Instrument,
             quantity : Number \ {0}, cost : Number \ {0}]

PositionModel == [portfolio : Portfolio, instrument : Instrument,
                  quantity : Number, cost : Number]

Change == [type : {"created"}, portfolio : Portfolio, position : {NoPosition},
           before : {NoRow}, after : {NoRow}]
  \cup [type : {"added"}, portfolio : Portfolio, position : PositionId,
        before : {NoRow}, after : Position]
  \cup [type : {"updated"}, portfolio : Portfolio, position : PositionId,
        before : Position, after : Position]
  \cup [type : {"removed"}, portfolio : Portfolio, position : PositionId,
        before : Position, after : {NoRow}]

Event == [time : 1 .. MaxTime, change : Change]

\* flushed: the portfolio row is locked, the change is made and not committed.
Transaction == [event : Event, flushed : BOOLEAN]

\* NUMERIC(38, 10): rounded to the nearest digit it keeps, a half upwards.
Stored(n) == Digit * ((2 * n + Digit) \div (2 * Digit))

ASSUME PortfolioAssumption ==
  /\ NoRow \notin PositionModel
  /\ NoPosition \notin PositionId /\ NoPortfolio \notin Portfolio
  /\ Number \subseteq Nat /\ Digit \in Nat \ {0} /\ \A n \in Number : Stored(n) \in Number
  /\ Quantity \cup Cost \subseteq Number \ {0} /\ NotGiven \notin Quantity \cup Cost
  /\ Idle \notin Transaction
  /\ MaxTime \in Nat

VARIABLES
  created,       \* rows of portfolios
  positions,     \* rows of positions, by id
  outbox,        \* the outbox rows in commit order
  now,           \* the latest time the clock has shown
  loaded,        \* the portfolio a session's request has loaded
  tx             \* the transaction each session runs

rows == <<created, positions, outbox>>
vars == <<rows, now, loaded, tx>>

TypeOK ==
  /\ created \in SUBSET Portfolio
  /\ positions \in [PositionId -> PositionModel \cup {NoRow}]
  /\ outbox \in Seq(Event)
  /\ now \in 0 .. MaxTime
  /\ loaded \in [Session -> Portfolio \cup {NoPortfolio}]
  /\ tx \in [Session -> Transaction \cup {Idle}]

Init ==
  /\ created = {}
  /\ positions = [x \in PositionId |-> NoRow]
  /\ outbox = <<>>
  /\ now = 0
  /\ loaded = [c \in Session |-> NoPortfolio]
  /\ tx = [c \in Session |-> Idle]

-----------------------------------------------------------------------------

InTransaction(c) == tx[c] # Idle

Changing(c) == tx[c].event.change

\* The outbox has told of this position id, or a transaction is about to.
Used(x) ==
  \/ \E i \in DOMAIN outbox : outbox[i].change.position = x
  \/ \E c \in Session : InTransaction(c) /\ Changing(c).position = x

Holding(p, i) ==
  \E x \in PositionId : /\ positions[x] # NoRow
                        /\ positions[x].portfolio = p
                        /\ positions[x].instrument = i

\* What the table keeps of a Position.
StoredRow(row) ==
  IF row = NoRow THEN NoRow
  ELSE [row EXCEPT !.quantity = Stored(@), !.cost = Stored(@)]

\* The row can become a Position: neither number was rounded to zero.
Valid(row) == row.quantity > 0 /\ row.cost > 0

\* get_portfolio() makes a Position of every row and raises when one is invalid.
Readable(p) ==
  \A x \in PositionId :
    positions[x] # NoRow /\ positions[x].portfolio = p => Valid(positions[x])

\* The row lock of SELECT ... FOR UPDATE, kept until the transaction ends.
PositionLocked(x) ==
  \E c \in Session : /\ InTransaction(c) /\ Changing(c).position = x
                     /\ Changing(c).type \in {"updated", "removed"}

PortfolioLocked(p) ==
  \E c \in Session : InTransaction(c) /\ tx[c].flushed /\ Changing(c).portfolio = p

\* Every request but the creation of a portfolio begins with it.
GetPortfolio(c, p) ==
  /\ ~InTransaction(c) /\ loaded[c] = NoPortfolio
  /\ p \in created /\ Readable(p)
  /\ loaded' = [loaded EXCEPT ![c] = p]
  /\ UNCHANGED <<rows, now, tx>>

\* The request was a query, or finds no position, a position that exists already
\* or a row that is no Position: it ends without a change.
Return(c) ==
  /\ ~InTransaction(c)
  /\ loaded' = [loaded EXCEPT ![c] = NoPortfolio]
  /\ UNCHANGED <<rows, now, tx>>

\* The change is decided and its event's occurred_at read from the clock.
Decide(c, change) ==
  /\ ~InTransaction(c) /\ now < MaxTime
  /\ loaded' = [loaded EXCEPT ![c] = NoPortfolio]
  /\ now' = now + 1
  /\ tx' = [tx EXCEPT ![c] =
       [event |-> [time |-> now + 1, change |-> change], flushed |-> FALSE]]
  /\ UNCHANGED rows

Told(type, portfolio, position, before, after) ==
  [type |-> type, portfolio |-> portfolio, position |-> position,
   before |-> before, after |-> after]

CreatePortfolio(c, p) ==
  /\ loaded[c] = NoPortfolio
  /\ p \notin created
  /\ \A d \in Session : InTransaction(d) => Changing(d).portfolio # p
  /\ Decide(c, Told("created", p, NoPosition, NoRow, NoRow))

\* The instrument was looked up before the position and its created_at are made.
AddPosition(c, x, row) ==
  /\ row.portfolio = loaded[c] /\ ~Holding(row.portfolio, row.instrument)
  /\ ~Used(x)
  /\ Decide(c, Told("added", row.portfolio, x, NoRow, row))

Given(value, current) == IF value = NotGiven THEN current ELSE value

Updated(row, quantity, cost) ==
  [row EXCEPT !.quantity = Given(quantity, @), !.cost = Given(cost, @)]

\* Mutants: the row is read without FOR UPDATE; the change is made on the table's
\* row, which is never made a Position.
SelectableUnlocked(c, x) ==
  /\ positions[x] # NoRow /\ positions[x].portfolio = loaded[c]
  /\ Valid(positions[x])

SelectableInvalid(c, x) ==
  /\ positions[x] # NoRow /\ positions[x].portfolio = loaded[c]
  /\ ~PositionLocked(x)

\* SELECT ... FOR UPDATE of a position of the loaded portfolio.
Selectable(c, x) ==
  /\ positions[x] # NoRow /\ positions[x].portfolio = loaded[c]
  /\ ~PositionLocked(x)
  /\ Valid(positions[x])

UpdatePosition(c, x, quantity, cost) ==
  /\ Selectable(c, x)
  /\ ~(quantity = NotGiven /\ cost = NotGiven)
  /\ Decide(c, Told("updated", positions[x].portfolio, x, positions[x],
                    Updated(positions[x], quantity, cost)))

DeletePosition(c, x) ==
  /\ Selectable(c, x)
  /\ Decide(c, Told("removed", positions[x].portfolio, x, positions[x], NoRow))

End(c) == tx' = [tx EXCEPT ![c] = Idle]

\* The addition violates uq_positions_portfolio_market_symbol.
Duplicate(c) ==
  Changing(c).type = "added"
    /\ Holding(Changing(c).portfolio, Changing(c).after.instrument)

\* Mutant: the table has no unique constraint.
FlushDuplicates(c) ==
  /\ InTransaction(c) /\ ~tx[c].flushed /\ ~PortfolioLocked(Changing(c).portfolio)
  /\ tx' = [tx EXCEPT ![c].flushed = TRUE]
  /\ UNCHANGED <<rows, now, loaded>>

Flush(c) ==
  /\ InTransaction(c) /\ ~tx[c].flushed /\ ~PortfolioLocked(Changing(c).portfolio)
  /\ ~Duplicate(c)
  /\ tx' = [tx EXCEPT ![c].flushed = TRUE]
  /\ UNCHANGED <<rows, now, loaded>>

\* IntegrityError becomes PositionAlreadyExistsError; nothing stays.
Refuse(c) ==
  /\ InTransaction(c) /\ ~tx[c].flushed /\ ~PortfolioLocked(Changing(c).portfolio)
  /\ Duplicate(c)
  /\ End(c)
  /\ UNCHANGED <<rows, now, loaded>>

\* The change and its outbox row, in one commit.
Commit(c) ==
  /\ InTransaction(c) /\ tx[c].flushed
  /\ created' = IF Changing(c).type = "created"
                  THEN created \cup {Changing(c).portfolio} ELSE created
  /\ positions' = [x \in PositionId |->
       IF x = Changing(c).position THEN StoredRow(Changing(c).after) ELSE positions[x]]
  /\ outbox' = Append(outbox, tx[c].event)
  /\ End(c)
  /\ UNCHANGED <<now, loaded>>

\* A database error, a failed outbox write or commit, a lost connection.
Abort(c) == InTransaction(c) /\ End(c) /\ UNCHANGED <<rows, now, loaded>>

Next ==
  \E c \in Session :
    \/ \E p \in Portfolio : GetPortfolio(c, p) \/ CreatePortfolio(c, p)
    \/ \E x \in PositionId :
         \/ \E p \in Portfolio, i \in Instrument, quantity \in Quantity, cost \in Cost :
              AddPosition(c, x, [portfolio |-> p, instrument |-> i,
                                 quantity |-> quantity, cost |-> cost])
         \/ \E quantity \in Quantity \cup {NotGiven}, cost \in Cost \cup {NotGiven} :
              UpdatePosition(c, x, quantity, cost)
         \/ DeletePosition(c, x)
    \/ Flush(c) \/ Refuse(c) \/ Commit(c) \/ Abort(c) \/ Return(c)

Spec == Init /\ [][Next]_vars

-----------------------------------------------------------------------------

EventsOf(x) == {outbox[i] : i \in {j \in DOMAIN outbox : outbox[j].change.position = x}}

\* The row a position has after these of its events, in occurred_at order.
RowAfter(events) ==
  IF events = {} THEN NoRow
  ELSE (CHOOSE e \in events : \A f \in events : f.time <= e.time).change.after

\* The dispatcher hands events out in occurred_at order (repositories/outbox.py
\* 336-341) although they commit in another order.  Still, read in that order the
\* events of one position tell its history without a gap: each names as `before'
\* what the row kept of the previous one (previous_quantity, previous_average_cost),
\* and the row is what it kept of the last one.
OutboxTellsHistory ==
  \A x \in PositionId :
    /\ \A e \in EventsOf(x) :
         e.change.before = StoredRow(RowAfter({f \in EventsOf(x) : f.time < e.time}))
    /\ positions[x] = StoredRow(RowAfter(EventsOf(x)))

\* Concurrent requests are serializable, each commit one atomic change of the
\* portfolio together with its event: no update is lost, no instrument held twice,
\* no event tells something that did not happen.
Ledger == INSTANCE PortfolioLedger
  WITH log <- [i \in DOMAIN outbox |-> outbox[i].change]

ImplementsLedger == Ledger!Spec

\* A Position has positive numbers (libs/domain/portfolio/models.py:54-60), so the
\* rows of a portfolio can always be made its Positions again.
PortfoliosReadable == \A p \in created : Readable(p)

\* A portfolio that cannot be read stays so: whatever requests are under way, no
\* update or removal reaches the row that was rounded to zero
\* (service.py:271-304, 361-384).
UnreadableStays == [][\A p \in created : ~Readable(p) => ~Readable(p)']_vars
=============================================================================
