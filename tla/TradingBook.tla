----------------------------- MODULE TradingBook ------------------------------
(***************************************************************************)
(* What paper trading promises: every operation is atomic.  One step       *)
(* decides on the books as they are and changes account, position, order   *)
(* and execution log together, as if nobody else were trading.  An order   *)
(* whose row cannot be read takes part in no operation.                    *)
(* (persistent_paper_trading_service.py 107-114, 337-366, 450-472.)        *)
(***************************************************************************)
EXTENDS TradingRules, Sequences

CONSTANTS
  Order,        \* order ids
  NoOrder,      \* no row with this id
  InitialCash   \* initial_cash of each account

VARIABLES
  orders,       \* paper_orders, by id
  cash,         \* paper_accounts.cash_balance
  held,         \* quantity in paper_positions; 0 before the first trade
  executions    \* paper_executions, by order

books == <<orders, cash, held, executions>>

Init ==
  /\ orders = [o \in Order |-> NoOrder]
  /\ cash = InitialCash
  /\ held = [a \in Account |-> [s \in Symbol |-> 0]]
  /\ executions = [o \in Order |-> <<>>]

\* Order o trades in full at this price.
Settle(o, order, price) ==
  /\ Covered(order, price, cash[order.account], held[order.account][order.symbol])
  /\ orders' = [orders EXCEPT ![o] = StoredOrder(Filled(order))]
  /\ cash' = [cash EXCEPT ![order.account] = Stored(FundsAfter(order, price, @))]
  /\ held' = [held EXCEPT ![order.account][order.symbol] = SharesAfter(order, @)]
  /\ executions' = [executions EXCEPT
       ![o] = Append(@, [quantity |-> Remaining(order), price |-> Stored(price)])]

MarketOrder(o) ==
  /\ orders[o] = NoOrder
  /\ \E a \in Account, s \in Symbol, side \in Side, q \in Quantity, p \in Price :
       Settle(o, NewOrder(a, s, side, q, NoLimit), p)

SubmitLimit(o) ==
  /\ orders[o] = NoOrder
  /\ \E a \in Account, s \in Symbol, side \in Side, q \in Quantity, l \in Limit :
       orders' = [orders EXCEPT ![o] = StoredOrder(Pending(NewOrder(a, s, side, q, l)))]
  /\ UNCHANGED <<cash, held, executions>>

FillLimit(o) ==
  /\ orders[o] # NoOrder
  /\ Readable(orders[o])
  /\ orders[o].status = "PENDING"
  /\ \E p \in Price : Triggered(orders[o], p) /\ Settle(o, orders[o], p)

Cancel(o) ==
  /\ orders[o] # NoOrder
  /\ Readable(orders[o])
  /\ Cancellable(orders[o])
  /\ orders' = [orders EXCEPT ![o] = StoredOrder(Cancelled(@))]
  /\ UNCHANGED <<cash, held, executions>>

Next == \E o \in Order :
  MarketOrder(o) \/ SubmitLimit(o) \/ FillLimit(o) \/ Cancel(o)

Spec == Init /\ [][Next]_books
=============================================================================
