----------------------------- MODULE PaperTrading -----------------------------
(***************************************************************************)
(* Persisted paper trading: PersistentPaperTradingService, the paper       *)
(* repositories, SqlAlchemyUnitOfWork and PendingOrderWorker.              *)
(*                                                                         *)
(* Every operation is one PostgreSQL transaction under READ COMMITTED, run *)
(* by a session: an API request or a pending-order worker.  It locks rows  *)
(* one after another with SELECT ... FOR UPDATE, copying each row into a   *)
(* domain object as it is locked, decides on these copies and on one       *)
(* quote, and writes the copies back, rounded, when it commits.  Locks     *)
(* last until the transaction ends, so the rows a session holds are the    *)
(* first `locked' of its lock plan.  An error at any point rolls back.     *)
(***************************************************************************)
EXTENDS TradingRules, Sequences, FiniteSetsExt

CONSTANTS
  Client,       \* API request threads, each with its own database session
  Worker,       \* pending-order workers
  Order,        \* order ids uuid4 hands out: bounds how many orders persist
  NoOrder,      \* no row with this id
  Idle,         \* a session outside any transaction
  InitialCash,  \* initial_cash of each account
  BatchSize     \* batch_size of a pending-order worker

Session == Client \cup Worker
Op      == {"market", "submit", "process", "cancel"}
Fill    == [quantity : Nat, price : Nat]

Transaction ==
  [op      : Op,
   id      : Order,          \* the order_id it works on
   locked  : 0 .. 3,         \* rows locked so far
   decided : BOOLEAN,        \* ready to commit
   order   : PaperOrder,     \* its copy of the order,
   funds   : Nat,            \*   of the account's cash_balance
   shares  : Nat,            \*   and of the position's quantity
   fill    : Seq(Fill)]      \* the Execution it produced, if any

ASSUME TradingAssumption ==
  /\ Client \cap Worker = {}
  /\ NoOrder \notin PaperOrderModel
  /\ Idle \notin Transaction
  /\ InitialCash \in [Account -> Nat \ {0}]
  /\ BatchSize \in Nat \ {0}
  /\ IsFiniteSet(Order)

VARIABLES
  orders,       \* paper_orders, by id
  cash,         \* paper_accounts.cash_balance
  held,         \* quantity in paper_positions; 0 while there is no row
  executions,   \* paper_executions, by order
  quote,        \* the latest quote of each symbol
  tx,           \* the transaction each session runs
  batch         \* order ids a worker has discovered and not yet processed

books == <<orders, cash, held, executions>>
vars  == <<books, quote, tx, batch>>

-----------------------------------------------------------------------------

\* Mutant: cancellation locks the order before the account.
LockPlanOrderFirst(op) ==
  CASE op = "process" -> <<"account", "order", "position">>
    [] op = "cancel"  -> <<"order", "account">>
    [] OTHER          -> <<"account", "position">>

\* Mutant: market orders and submissions do not lock the account.
LockPlanNoAccount(op) ==
  CASE op = "process" -> <<"account", "order", "position">>
    [] op = "cancel"  -> <<"account", "order">>
    [] OTHER          -> <<"position">>

\* The rows an operation locks, in this order.
LockPlan(op) ==
  CASE op = "process" -> <<"account", "order", "position">>
    [] op = "cancel"  -> <<"account", "order">>
    [] OTHER          -> <<"account", "position">>

InTransaction(c) == tx[c] # Idle

Holds(c, kind) ==
  InTransaction(c) /\ \E i \in 1 .. tx[c].locked : LockPlan(tx[c].op)[i] = kind

\* A position row exists from the first trade on; a missing row locks nothing.
HasPosition(a, s) ==
  \E o \in Order : /\ executions[o] # <<>>
                   /\ orders[o].account = a /\ orders[o].symbol = s

\* Sessions c and d lock the same row of this kind.
SameRow(c, d, kind) ==
  /\ kind \in {"account", "position"} => tx[c].order.account = tx[d].order.account
  /\ kind = "order" => tx[c].id = tx[d].id
  /\ kind = "position" => /\ tx[c].order.symbol = tx[d].order.symbol
                          /\ HasPosition(tx[c].order.account, tx[c].order.symbol)

TypeOK ==
  /\ orders \in [Order -> PaperOrderModel \cup {NoOrder}]
  /\ cash \in [Account -> Nat]
  /\ held \in [Account -> [Symbol -> Nat]]
  /\ executions \in [Order -> Seq(Fill)]
  /\ quote \in [Symbol -> Quote]
  /\ tx \in [Session -> Transaction \cup {Idle}]
  /\ batch \in [Worker -> SUBSET Order]

Init ==
  /\ orders = [o \in Order |-> NoOrder]
  /\ cash = InitialCash
  /\ held = [a \in Account |-> [s \in Symbol |-> 0]]
  /\ executions = [o \in Order |-> <<>>]
  /\ quote \in [Symbol -> Quote]
  /\ tx = [c \in Session |-> Idle]
  /\ batch = [w \in Worker |-> {}]

-----------------------------------------------------------------------------
(* Starting a transaction.  An order that is new is built from the request; *)
(* for a persisted one the copy is the unlocked routing read.               *)

Start(c, op, o, order) ==
  /\ ~InTransaction(c)
  /\ tx' = [tx EXCEPT ![c] =
       [op |-> op, id |-> o, locked |-> 0, decided |-> FALSE,
        order |-> order, funds |-> 0, shares |-> 0, fill |-> <<>>]]
  /\ UNCHANGED <<books, quote>>

FreshId(o) ==
  orders[o] = NoOrder /\ \A c \in Session : InTransaction(c) => tx[c].id # o

BeginMarket(c) ==
  /\ \E o \in Order, a \in Account, s \in Symbol, side \in Side, q \in Quantity :
       FreshId(o) /\ Start(c, "market", o, NewOrder(a, s, side, q, NoLimit))
  /\ UNCHANGED batch

BeginSubmit(c) ==
  /\ \E o \in Order, a \in Account, s \in Symbol, side \in Side, q \in Quantity,
        l \in Limit :
       FreshId(o) /\ Start(c, "submit", o, NewOrder(a, s, side, q, l))
  /\ UNCHANGED batch

\* Mutant: the row is used as it is, no PaperOrder is made of it.
CanReadAny(o) == orders[o] # NoOrder

\* The routes find the order of the user first; market orders are found too.  An
\* order whose row cannot be read raises there.
CanRead(o) == orders[o] # NoOrder /\ Readable(orders[o])

BeginProcess(c) ==
  /\ \E o \in Order : CanRead(o) /\ Start(c, "process", o, orders[o])
  /\ UNCHANGED batch

BeginCancel(c) ==
  /\ \E o \in Order : CanRead(o) /\ Start(c, "cancel", o, orders[o])
  /\ UNCHANGED batch

-----------------------------------------------------------------------------
(* Locking rows.                                                            *)

CanLock(c, kind) ==
  /\ InTransaction(c)
  /\ tx[c].locked < Len(LockPlan(tx[c].op))
  /\ LockPlan(tx[c].op)[tx[c].locked + 1] = kind
  /\ \A d \in Session \ {c} : ~(Holds(d, kind) /\ SameRow(c, d, kind))

\* Mutant: the account lock is not exclusive (a plain SELECT).
LockAccountUnlocked(c) ==
  /\ InTransaction(c) /\ tx[c].locked = 0 /\ LockPlan(tx[c].op)[1] = "account"
  /\ tx' = [tx EXCEPT ![c].locked = @ + 1, ![c].funds = cash[tx[c].order.account]]
  /\ UNCHANGED <<books, quote, batch>>

LockAccount(c) ==
  /\ CanLock(c, "account")
  /\ tx' = [tx EXCEPT ![c].locked = @ + 1, ![c].funds = cash[tx[c].order.account]]
  /\ UNCHANGED <<books, quote, batch>>

\* Mutant: the copy stays the one the routing read made.
LockOrderKeepingRoutingCopy(c) ==
  /\ CanLock(c, "order")
  /\ tx' = [tx EXCEPT ![c].locked = @ + 1]
  /\ UNCHANGED <<books, quote, batch>>

LockOrder(c) ==
  /\ CanLock(c, "order")
  /\ CanRead(tx[c].id)
  /\ tx' = [tx EXCEPT ![c].locked = @ + 1, ![c].order = orders[tx[c].id]]
  /\ UNCHANGED <<books, quote, batch>>

LockPosition(c) ==
  /\ CanLock(c, "position")
  /\ tx' = [tx EXCEPT ![c].locked = @ + 1,
                      ![c].shares = held[tx[c].order.account][tx[c].order.symbol]]
  /\ UNCHANGED <<books, quote, batch>>

Lock(c) == LockAccount(c) \/ LockOrder(c) \/ LockPosition(c)

-----------------------------------------------------------------------------
(* Deciding, on the copies and the quote of this moment.                    *)

Ready(c) ==
  /\ InTransaction(c)
  /\ tx[c].locked = Len(LockPlan(tx[c].op))
  /\ ~tx[c].decided

TradePrice(c) == PriceFor(tx[c].order.side, quote[tx[c].order.symbol])

\* A market order trades at once, a pending limit order when its limit is met.
ShouldTrade(c) ==
  \/ tx[c].op = "market"
  \/ /\ tx[c].op = "process"
     /\ IsLimit(tx[c].order)
     /\ tx[c].order.status = "PENDING"
     /\ Triggered(tx[c].order, TradePrice(c))

\* Mutant: no check of cash or shares.
CanTradeUnchecked(c) == TRUE

CanTrade(c) == Covered(tx[c].order, TradePrice(c), tx[c].funds, tx[c].shares)

Trade(c) ==
  /\ Ready(c) /\ ShouldTrade(c) /\ CanTrade(c)
  /\ tx' = [tx EXCEPT
       ![c].decided = TRUE,
       ![c].order   = Filled(@),
       ![c].funds   = FundsAfter(tx[c].order, TradePrice(c), @),
       ![c].shares  = SharesAfter(tx[c].order, @),
       ![c].fill    = <<[quantity |-> Remaining(tx[c].order), price |-> TradePrice(c)]>>]
  /\ UNCHANGED <<books, quote, batch>>

Enter(c) ==
  /\ Ready(c) /\ tx[c].op = "submit"
  /\ tx' = [tx EXCEPT ![c].decided = TRUE, ![c].order = Pending(@)]
  /\ UNCHANGED <<books, quote, batch>>

\* Mutant: any order may be cancelled.
WithdrawUnchecked(c) ==
  /\ Ready(c) /\ tx[c].op = "cancel"
  /\ tx' = [tx EXCEPT ![c].decided = TRUE, ![c].order = Cancelled(@)]
  /\ UNCHANGED <<books, quote, batch>>

Withdraw(c) ==
  /\ Ready(c) /\ tx[c].op = "cancel" /\ Cancellable(tx[c].order)
  /\ tx' = [tx EXCEPT ![c].decided = TRUE, ![c].order = Cancelled(@)]
  /\ UNCHANGED <<books, quote, batch>>

\* process_quote returned None: no longer pending, or the limit is not met.
Leave(c) ==
  /\ Ready(c) /\ tx[c].op = "process" /\ IsLimit(tx[c].order) /\ ~ShouldTrade(c)
  /\ tx' = [tx EXCEPT ![c].decided = TRUE]
  /\ UNCHANGED <<books, quote, batch>>

End(c) == tx' = [tx EXCEPT ![c] = Idle]

\* The domain raised: not covered, not a limit order, or not cancellable.
Refuse(c) ==
  /\ Ready(c)
  /\ \/ ShouldTrade(c) /\ ~CanTrade(c)
     \/ tx[c].op = "process" /\ ~IsLimit(tx[c].order)
     \/ tx[c].op = "cancel" /\ ~Cancellable(tx[c].order)
  /\ End(c)
  /\ UNCHANGED <<books, quote, batch>>

Decide(c) == Trade(c) \/ Enter(c) \/ Withdraw(c) \/ Leave(c) \/ Refuse(c)

-----------------------------------------------------------------------------
(* Ending.  The columns round what they are given.                          *)

\* The row of an Execution.
StoredFill(fill) == [quantity |-> fill.quantity, price |-> Stored(fill.price)]
StoredFills(fills) == [i \in DOMAIN fills |-> StoredFill(fills[i])]

\* Mutant: the limit order's row is not updated with its execution.
CommitTradeForgettingOrder(c) ==
  /\ InTransaction(c) /\ tx[c].decided /\ tx[c].fill # <<>>
  /\ orders' = IF tx[c].op = "process" THEN orders
               ELSE [orders EXCEPT ![tx[c].id] = StoredOrder(tx[c].order)]
  /\ cash' = [cash EXCEPT ![tx[c].order.account] = Stored(tx[c].funds)]
  /\ held' = [held EXCEPT ![tx[c].order.account][tx[c].order.symbol] = tx[c].shares]
  /\ executions' = [executions EXCEPT ![tx[c].id] = @ \o StoredFills(tx[c].fill)]
  /\ End(c)
  /\ UNCHANGED <<quote, batch>>

\* _persist_execution / _persist_limit_execution: all four writes, one commit.
CommitTrade(c) ==
  /\ InTransaction(c) /\ tx[c].decided /\ tx[c].fill # <<>>
  /\ orders' = [orders EXCEPT ![tx[c].id] = StoredOrder(tx[c].order)]
  /\ cash' = [cash EXCEPT ![tx[c].order.account] = Stored(tx[c].funds)]
  /\ held' = [held EXCEPT ![tx[c].order.account][tx[c].order.symbol] = tx[c].shares]
  /\ executions' = [executions EXCEPT ![tx[c].id] = @ \o StoredFills(tx[c].fill)]
  /\ End(c)
  /\ UNCHANGED <<quote, batch>>

CommitOrder(c) ==
  /\ InTransaction(c) /\ tx[c].decided /\ tx[c].op \in {"submit", "cancel"}
  /\ orders' = [orders EXCEPT ![tx[c].id] = StoredOrder(tx[c].order)]
  /\ End(c)
  /\ UNCHANGED <<cash, held, executions, quote, batch>>

CommitNothing(c) ==
  /\ InTransaction(c) /\ tx[c].decided
  /\ tx[c].op = "process" /\ tx[c].fill = <<>>
  /\ End(c)
  /\ UNCHANGED <<books, quote, batch>>

Commit(c) == CommitTrade(c) \/ CommitOrder(c) \/ CommitNothing(c)

\* Any failure inside the transaction (no quote, database error, lost
\* connection, failed commit) rolls it back; a worker goes on with its batch.
Abort(c) == InTransaction(c) /\ End(c) /\ UNCHANGED <<books, quote, batch>>

-----------------------------------------------------------------------------
(* The pending-order worker.                                                *)

Triggerable(o) ==
  orders[o] # NoOrder /\ IsLimit(orders[o]) /\ orders[o].status = "PENDING"

\* SELECT ... LIMIT without ORDER BY: any BatchSize of the pending orders.
Discover(w) ==
  /\ ~InTransaction(w) /\ batch[w] = {}
  /\ LET pending == {o \in Order : Triggerable(o)}
         n == IF Cardinality(pending) < BatchSize
                THEN Cardinality(pending) ELSE BatchSize
     IN \E found \in kSubset(n, pending) : batch' = [batch EXCEPT ![w] = found]
  /\ UNCHANGED <<books, quote, tx>>

\* _process_one begins with the routing read; what it raises is logged, no more.
ProcessOne(w, o) ==
  IF CanRead(o) THEN Start(w, "process", o, orders[o])
  ELSE ~InTransaction(w) /\ UNCHANGED <<books, quote, tx>>

\* Mutant: an order that stays pending is tried again before the others.
ProcessNextRetrying(w) ==
  \E o \in batch[w] :
    /\ ProcessOne(w, o)
    /\ batch' = [batch EXCEPT ![w] = IF Triggerable(o) THEN @ ELSE @ \ {o}]

ProcessNext(w) ==
  \E o \in batch[w] :
    /\ ProcessOne(w, o)
    /\ batch' = [batch EXCEPT ![w] = @ \ {o}]

\* The worker process dies and is started again.
Restart(w) ==
  /\ InTransaction(w) \/ batch[w] # {}
  /\ End(w)
  /\ batch' = [batch EXCEPT ![w] = {}]
  /\ UNCHANGED <<books, quote>>

-----------------------------------------------------------------------------

\* Market data moves at any time, also between two steps of a transaction.
NewQuote ==
  /\ \E s \in Symbol, q \in Quote : quote' = [quote EXCEPT ![s] = q]
  /\ UNCHANGED <<books, tx, batch>>

Request(c) ==
  c \in Client
  /\ (BeginMarket(c) \/ BeginSubmit(c) \/ BeginProcess(c) \/ BeginCancel(c))

Poll(w) == w \in Worker /\ (Discover(w) \/ ProcessNext(w) \/ Restart(w))

Next ==
  \/ NewQuote
  \/ \E c \in Session :
       Request(c) \/ Poll(c) \/ Lock(c) \/ Decide(c) \/ Commit(c) \/ Abort(c)

Spec == Init /\ [][Next]_vars

(* Fairness.  A running thread goes on.  PostgreSQL queues the waiters of a *)
(* row lock, so a lock that is free again and again is granted in the end.  *)
(* run_forever() polls for ever and survives the failure of any one order.  *)
(* And infrastructure failures and restarts do not go on for ever.          *)
Fairness ==
  /\ \A c \in Session : WF_vars(Decide(c)) /\ WF_vars(Commit(c)) /\ SF_vars(Lock(c))
  /\ \A w \in Worker : WF_vars(Discover(w)) /\ WF_vars(ProcessNext(w))

\* A step that only a failure explains.
Fault ==
  /\ (\E c \in Session : Abort(c)) \/ (\E w \in Worker : Restart(w))
  /\ ~\E c \in Session : Refuse(c) \/ CommitNothing(c)

FairSpec == Spec /\ Fairness /\ <>[][~Fault]_vars

-----------------------------------------------------------------------------
(* Safety.                                                                  *)

\* The test_same_persisted_limit_order_cannot_be_double_filled invariant: an
\* order has exactly one execution, for its whole quantity, once it is FILLED
\* and none before, however many sessions process, cancel or discover it.
EachOrderFilledOnce ==
  \A o \in Order : IF orders[o] # NoOrder /\ orders[o].status = "FILLED"
    THEN /\ Len(executions[o]) = 1
         /\ executions[o][1].quantity = orders[o].quantity
         /\ orders[o].filled = orders[o].quantity
    ELSE executions[o] = <<>>

Sign(o) == IF orders[o].side = "BUY" THEN 1 ELSE -1

\* The executions of order o, as shares bought and money spent.
Bought(o) ==
  Sign(o) * MapThenSumSet(LAMBDA i : executions[o][i].quantity, DOMAIN executions[o])
Spent(o) ==
  Sign(o) * MapThenSumSet(LAMBDA i : executions[o][i].quantity * executions[o][i].price,
                          DOMAIN executions[o])

Executed(o) == executions[o] # <<>>

\* What the orders of an account spent, and bought of a symbol.
TotalSpent(a) ==
  MapThenSumSet(LAMBDA o : IF Executed(o) /\ orders[o].account = a
                           THEN Spent(o) ELSE 0, Order)
TotalBought(a, s) ==
  MapThenSumSet(LAMBDA o : IF Executed(o) /\ orders[o].account = a /\ orders[o].symbol = s
                           THEN Bought(o) ELSE 0, Order)

\* How often trades of an account rounded: the price of each share, and the balance.
Roundings(a) ==
  MapThenSumSet(LAMBDA o : IF Executed(o) /\ orders[o].account = a
                           THEN orders[o].quantity + 1 ELSE 0, Order)

\* No update of an account or a position is lost or applied twice: holdings always
\* are what the execution log says, and cash is up to half a digit for each time a
\* column rounded (the four writes of _persist_execution are one transaction, the
\* account row serializes them).
BooksBalance ==
  \A a \in Account :
    /\ 2 * (cash[a] + TotalSpent(a) - InitialCash[a])
         \in -(Digit * Roundings(a)) .. Digit * Roundings(a)
    /\ \A s \in Symbol : held[a][s] = TotalBought(a, s)

\* Whatever a session is about to decide on is what the database holds at that
\* moment: no decision is made from the unlocked routing copy, and no other
\* session writes a row between its lock and the decision.
DecidesOnLockedRows ==
  \A c \in Session : Ready(c) =>
    /\ tx[c].funds = cash[tx[c].order.account]
    /\ tx[c].op \in {"process", "cancel"} => tx[c].order = orders[tx[c].id]
    /\ tx[c].op # "cancel" =>
         tx[c].shares = held[tx[c].order.account][tx[c].order.symbol]

\* The row session c locks next is one that session d holds.
WaitsFor(c, d) ==
  /\ c # d /\ InTransaction(c) /\ tx[c].locked < Len(LockPlan(tx[c].op))
  /\ LET kind == LockPlan(tx[c].op)[tx[c].locked + 1]
     IN Holds(d, kind) /\ SameRow(c, d, kind)

\* Sessions never wait for one another in a circle, nor in a row: whoever another
\* session waits for can go on (all transactions take the account row first, and the
\* other rows belong to it: persistent_paper_trading_service.py 374-392).
NoCircularWait ==
  \A c, d, e \in Session : WaitsFor(c, d) => ~WaitsFor(d, e)

\* A filled order is never cancelled nor filled again, and a cancelled one
\* never fills (test_cancelled_limit_order_cannot_fill_later), whichever of
\* two racing transactions started first.
FinalOrdersStay ==
  [][\A o \in Order :
       (orders[o] # NoOrder /\ ~Cancellable(orders[o])) => orders'[o] = orders[o]]_vars

\* An order whose limit was stored as zero is dead: as it cannot be read, no request
\* and no worker ever fills it or cancels it, whatever the market does.  It stays
\* PENDING, and every discovery finds it (schemas/trading_write.py 27,
\* models/trading.py 248-254, repositories/trading.py 546-565).
UnreadableOrdersStay ==
  [][\A o \in Order :
       (orders[o] # NoOrder /\ ~Readable(orders[o])) => orders'[o] = orders[o]]_vars

Book == INSTANCE TradingBook

\* Interleaved transactions are serializable: each commit is one atomic
\* operation of TradingBook, decided on the books as they then are.
ImplementsBook == Book!Spec

-----------------------------------------------------------------------------
(* Liveness, under FairSpec.                                                *)

\* Sessions never wait for one another in a circle (all take the account row
\* first): every transaction comes to its end.
TransactionsEnd == \A c \in Session : InTransaction(c) ~> ~InTransaction(c)

Fillable(o) ==
  /\ Triggerable(o) /\ Readable(orders[o])
  /\ LET order == orders[o]
         price == PriceFor(order.side, quote[order.symbol])
     IN /\ Triggered(order, price)
        /\ Covered(order, price, cash[order.account], held[order.account][order.symbol])

\* With a batch that takes all pending orders, no order that can be read, whose
\* limit stays met and whose account stays able to pay is left pending for ever;
\* orders that cannot be read, which fail in every cycle, do not keep the worker from
\* the others (pending_order_worker.py 86-98).
NoOrderFillableForever == \A o \in Order : []<>~Fillable(o)

Processing(o) ==
  \E w \in Worker : InTransaction(w) /\ tx[w].id = o

\* The worker processes each pending order (pending_order_worker.py 43-46).
EveryPendingOrderIsProcessed ==
  \A o \in Order : Triggerable(o) ~> (Processing(o) \/ ~Triggerable(o))
=============================================================================
