---------------------------- MODULE PortfolioLedger ----------------------------
(***************************************************************************)
(* What the portfolio service promises: "business writes and their         *)
(* corresponding outbox events are committed atomically"                   *)
(* (services/api/portfolio/service.py 72-73).  One step decides on the     *)
(* portfolio as it is, changes it and appends the event that tells it.     *)
(* The rows keep ten decimals of the numbers the events tell.              *)
(***************************************************************************)
EXTENDS Naturals, Sequences

CONSTANTS
  Portfolio, Instrument,
  PositionId,    \* position ids uuid4 hands out
  Number,        \* the numbers of requests and rows, in some small unit
  Digit,         \* the last digit a row keeps of a number
  NoPosition,    \* an event about the portfolio itself
  NoRow          \* no row with this position id

Position == [portfolio : Portfolio, instrument : Instrument,
             quantity : Number \ {0}, cost : Number \ {0}]

Stored(n) == Digit * ((2 * n + Digit) \div (2 * Digit))

StoredRow(row) == [row EXCEPT !.quantity = Stored(@), !.cost = Stored(@)]

VARIABLES
  created,       \* portfolios that exist
  positions,     \* the positions table, by id
  log            \* the outbox, in commit order

vars == <<created, positions, log>>

Told(type, portfolio, position, before, after) ==
  [type |-> type, portfolio |-> portfolio, position |-> position,
   before |-> before, after |-> after]

Used(x) == \E i \in DOMAIN log : log[i].position = x

Holding(p, i) ==
  \E x \in PositionId : /\ positions[x] # NoRow
                        /\ positions[x].portfolio = p
                        /\ positions[x].instrument = i

Init == created = {} /\ positions = [x \in PositionId |-> NoRow] /\ log = <<>>

Create(p) ==
  /\ p \notin created
  /\ created' = created \cup {p}
  /\ log' = Append(log, Told("created", p, NoPosition, NoRow, NoRow))
  /\ UNCHANGED positions

Add(x, row) ==
  /\ row.portfolio \in created /\ ~Used(x)
  /\ ~Holding(row.portfolio, row.instrument)
  /\ positions' = [positions EXCEPT ![x] = StoredRow(row)]
  /\ log' = Append(log, Told("added", row.portfolio, x, NoRow, row))
  /\ UNCHANGED created

Update(x, q, k) ==
  /\ positions[x] # NoRow
  /\ positions' = [positions EXCEPT ![x].quantity = Stored(q), ![x].cost = Stored(k)]
  /\ log' = Append(log, Told("updated", positions[x].portfolio, x, positions[x],
                             [positions[x] EXCEPT !.quantity = q, !.cost = k]))
  /\ UNCHANGED created

Remove(x) ==
  /\ positions[x] # NoRow
  /\ positions' = [positions EXCEPT ![x] = NoRow]
  /\ log' = Append(log, Told("removed", positions[x].portfolio, x, positions[x], NoRow))
  /\ UNCHANGED created

Next ==
  \/ \E p \in Portfolio : Create(p)
  \/ \E x \in PositionId :
       \/ \E row \in Position : Add(x, row)
       \/ \E q, k \in Number \ {0} : Update(x, q, k)
       \/ Remove(x)

Spec == Init /\ [][Next]_vars
=============================================================================
