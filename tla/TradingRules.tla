----------------------------- MODULE TradingRules -----------------------------
(***************************************************************************)
(* The domain rules of paper trading: libs/trading/models.py (PaperOrder,  *)
(* PaperAccount, Position) and libs/trading/paper_broker.py.  An order is  *)
(* always filled whole, at the ask (BUY) or the bid (SELL).                *)
(*                                                                         *)
(* Prices are whole numbers here, and Digit of them are one unit of the    *)
(* last digit that a NUMERIC(20, 6) column has: what a column keeps of a   *)
(* price or of a balance is rounded to a multiple of Digit, and an order   *)
(* in memory differs from its row.  Of a position only the quantity is     *)
(* kept: average cost and realized P&L feed no decision.                   *)
(***************************************************************************)
EXTENDS Integers

CONSTANTS
  Account, Symbol,
  Price,      \* prices quoted
  Limit,      \* limit prices requested: any Decimal above zero
  Quantity,   \* order quantities
  NoLimit,    \* limit_price IS NULL: a MARKET order
  Digit       \* the last digit of a money column

\* What a NUMERIC column keeps: the nearest multiple of Digit, halves rounded up.
Stored(n) == Digit * ((2 * n + Digit) \div (2 * Digit))

\* Quotes that would be stored as zero are left out: ck_paper_executions_price_positive
\* has PostgreSQL refuse the trade, which is rolled back.
ASSUME RulesAssumption ==
  /\ Digit \in Nat \ {0}
  /\ Price \subseteq Nat \ {0} /\ \A p \in Price : Stored(p) # 0
  /\ Limit \subseteq Nat \ {0}
  /\ Quantity \subseteq Nat \ {0}
  /\ NoLimit \notin Nat

Side   == {"BUY", "SELL"}
Status == {"NEW", "PENDING", "PARTIALLY_FILLED", "FILLED", "CANCELLED"}
Quote  == {q \in [bid : Price, ask : Price] : q.bid <= q.ask}

\* An order in memory, and a row of paper_orders.
PaperOrder ==
  [account : Account, symbol : Symbol, side : Side, quantity : Quantity,
   limit : (Nat \ {0}) \cup {NoLimit}, filled : Nat, status : Status]
PaperOrderModel ==
  [account : Account, symbol : Symbol, side : Side, quantity : Quantity,
   limit : Nat \cup {NoLimit}, filled : Nat, status : Status]

NewOrder(account, symbol, side, quantity, limit) ==
  [account |-> account, symbol |-> symbol, side |-> side,
   quantity |-> quantity, limit |-> limit, filled |-> 0, status |-> "NEW"]

IsLimit(order) == order.limit # NoLimit

\* The row of an order.
StoredOrder(order) ==
  IF IsLimit(order) THEN [order EXCEPT !.limit = Stored(@)] ELSE order

\* A row makes an order again unless its limit is zero: "Limit price must be greater
\* than zero."
Readable(row) == row.limit # 0

Remaining(order) == order.quantity - order.filled

\* The price an order of this side trades at.
PriceFor(side, quote) == IF side = "BUY" THEN quote.ask ELSE quote.bid

Triggered(order, price) ==
  IF order.side = "BUY" THEN price <= order.limit ELSE price >= order.limit

\* ensure_can_buy / Position.sell: enough cash, or enough shares.
Covered(order, price, funds, shares) ==
  IF order.side = "BUY" THEN price * Remaining(order) <= funds
                        ELSE Remaining(order) <= shares

FundsAfter(order, price, funds) ==
  IF order.side = "BUY" THEN funds - price * Remaining(order)
                        ELSE funds + price * Remaining(order)

SharesAfter(order, shares) ==
  IF order.side = "BUY" THEN shares + Remaining(order)
                        ELSE shares - Remaining(order)

\* record_fill(quantity)
RecordFill(order, quantity) ==
  [order EXCEPT
    !.filled = @ + quantity,
    !.status = IF order.filled + quantity = order.quantity
                 THEN "FILLED" ELSE "PARTIALLY_FILLED"]

Filled(order) == RecordFill(order, Remaining(order))

Pending(order)   == [order EXCEPT !.status = "PENDING"]
Cancelled(order) == [order EXCEPT !.status = "CANCELLED"]

Cancellable(order) == order.status \notin {"FILLED", "CANCELLED"}
=============================================================================
