-------------------------- MODULE PaperTradingProofs --------------------------
(***************************************************************************)
(* Theorems about PaperTrading for every number of sessions, accounts,     *)
(* symbols and orders, all from one inductive invariant, Inv.  Its core is *)
(* that a session which has locked its account is alone there, so that the *)
(* copies it has read since are the rows themselves (Current) and what it  *)
(* has decided is still one atomic operation on the books (Outcome).       *)
(* That the books balance follows from it and from lemmas on sums, whose   *)
(* induction on a finite set is an argument on the smallest exception.     *)
(***************************************************************************)
EXTENDS PaperTrading, FiniteSetTheorems, WellFoundedInduction, TLAPS

\* Transactions on an order that already has a row.
Persisted(t) == t.op \in {"process", "cancel"}

Counted(t) ==
  /\ t.locked <= Len(LockPlan(t.op))
  /\ t.decided => t.locked = Len(LockPlan(t.op))

Routed(t) ==
  IF Persisted(t)
    THEN orders[t.id] # NoOrder /\ t.order.account = orders[t.id].account
    ELSE orders[t.id] = NoOrder

Opening(t) == ~t.decided =>
  /\ t.fill = <<>>
  /\ ~Persisted(t) => /\ t.order.status = "NEW" /\ t.order.filled = 0
                      /\ (t.op = "submit") = IsLimit(t.order)
                      /\ t.op = "submit" => t.order.limit \in Limit

Current(t) == ~t.decided =>
  /\ t.locked >= 1 => t.funds = cash[t.order.account]
  /\ t.locked >= 2 /\ Persisted(t) => t.order = orders[t.id]
  /\ t.locked = Len(LockPlan(t.op)) /\ t.op # "cancel"
       => t.shares = held[t.order.account][t.order.symbol]

\* The order as it was before the transaction.
Base(t) ==
  IF Persisted(t) THEN orders[t.id]
  ELSE NewOrder(t.order.account, t.order.symbol, t.order.side, t.order.quantity,
                t.order.limit)

Settled(t, b, p) ==
  /\ Covered(b, p, cash[b.account], held[b.account][b.symbol])
  /\ t.order  = Filled(b)
  /\ t.funds  = FundsAfter(b, p, cash[b.account])
  /\ t.shares = SharesAfter(b, held[b.account][b.symbol])
  /\ t.fill   = <<[quantity |-> Remaining(b), price |-> p]>>

Outcome(t) == t.decided =>
  \/ /\ t.op = "market" /\ ~IsLimit(t.order)
     /\ \E p \in Price : Settled(t, Base(t), p)
  \/ /\ t.op = "process" /\ IsLimit(Base(t)) /\ Base(t).status = "PENDING"
     /\ \E p \in Price : Triggered(Base(t), p) /\ Settled(t, Base(t), p)
  \/ t.op = "process" /\ t.fill = <<>>
  \/ /\ t.op = "submit" /\ t.fill = <<>> /\ t.order.limit \in Limit
     /\ t.order = Pending(Base(t))
  \/ /\ t.op = "cancel" /\ t.fill = <<>> /\ Cancellable(Base(t))
     /\ t.order = Cancelled(Base(t))

SessionInv(t) == t # Idle =>
  Counted(t) /\ Routed(t) /\ Opening(t) /\ Current(t) /\ Outcome(t)

\* Two transactions at once: one account lock, and no order id made twice.
Apart(t, u) == t # Idle /\ u # Idle =>
  /\ t.locked >= 1 /\ u.locked >= 1 => t.order.account # u.order.account
  /\ ~Persisted(t) \/ ~Persisted(u) => t.id # u.id

\* The row of an order and its executions.
RowInv(o) == orders[o] # NoOrder =>
  IF orders[o].status = "FILLED" THEN orders[o].filled = orders[o].quantity
  ELSE orders[o].status \in {"PENDING", "CANCELLED"} /\ orders[o].filled = 0

\* A worker only remembers orders that exist.
Discovered == \A w \in Worker : \A o \in batch[w] : orders[o] # NoOrder

Inv ==
  /\ TypeOK
  /\ Discovered
  /\ \A c \in Session : SessionInv(tx[c])
  /\ \A c, d \in Session : c # d => Apart(tx[c], tx[d])
  /\ \A o \in Order : RowInv(o)
  /\ EachOrderFilledOnce

-----------------------------------------------------------------------------
(* Operators.                                                               *)

\* Division of whole numbers.
LEMMA Quotients ==
  /\ \A a \in Int, b \in Nat \ {0} : b * (a \div b) <= a /\ a < b * (a \div b) + b
  /\ \A a \in Nat, b \in Nat \ {0} : a \div b \in Nat
<1>1. \A a \in Int, b \in Nat \ {0} : b * (a \div b) <= a /\ a < b * (a \div b) + b
  OBVIOUS
<1>2. \A a \in Nat, b \in Nat \ {0} : a \div b \in Nat
  OBVIOUS
<1> QED BY <1>1, <1>2

\* An order that nothing was filled of is filled whole: Filled() leaves a FILLED
\* order of the same account, symbol and quantity (PaperOrder.record_fill).
LEMMA FilledWhole ==
  ASSUME NEW b \in PaperOrder, b.filled = 0
  PROVE  /\ Filled(b) \in PaperOrder
         /\ Filled(b).status = "FILLED" /\ Filled(b).filled = b.quantity
         /\ Filled(b).account = b.account /\ Filled(b).symbol = b.symbol
         /\ Filled(b).quantity = b.quantity
         /\ Filled(b).side = b.side /\ Filled(b).limit = b.limit
         /\ Remaining(b) = b.quantity /\ Remaining(b) \in Nat
<1>1. b.quantity \in Nat /\ b.filled \in Nat
  BY RulesAssumption DEF PaperOrder
<1>2. Remaining(b) = b.quantity
  BY <1>1 DEF Remaining
<1>3. Filled(b) = [b EXCEPT !.filled = b.quantity, !.status = "FILLED"]
  <2>1. b.filled + Remaining(b) = b.quantity
    BY <1>1, <1>2
  <2> QED
    BY <2>1 DEF Filled, RecordFill, PaperOrder
<1> QED
  BY <1>1, <1>2, <1>3 DEF PaperOrder, Status

\* What a column keeps is a natural number again, and half a digit away at most.
LEMMA Rounding ==
  ASSUME NEW n \in Nat
  PROVE  Stored(n) \in Nat /\ 2 * Stored(n) - 2 * n \in -Digit .. Digit
<1> DEFINE k == (2 * n + Digit) \div (2 * Digit)
<1>1. 2 * n + Digit \in Nat /\ 2 * Digit \in Nat \ {0}
  BY RulesAssumption
<1>2. /\ k \in Nat
      /\ (2 * Digit) * k <= 2 * n + Digit
      /\ 2 * n + Digit < (2 * Digit) * k + 2 * Digit
  BY <1>1, Quotients
<1> HIDE DEF k
<1>3. Digit * k \in Nat /\ (2 * Digit) * k = 2 * (Digit * k)
  BY <1>2, RulesAssumption
<1>4. Stored(n) = Digit * k
  BY DEF Stored, k
<1> QED
  BY <1>2, <1>3, <1>4, RulesAssumption

\* The row of an order differs from it in the limit only.
LEMMA Row ==
  ASSUME NEW b \in PaperOrder
  PROVE  /\ StoredOrder(b) \in PaperOrderModel
         /\ StoredOrder(b).account = b.account /\ StoredOrder(b).symbol = b.symbol
         /\ StoredOrder(b).side = b.side /\ StoredOrder(b).quantity = b.quantity
         /\ StoredOrder(b).status = b.status /\ StoredOrder(b).filled = b.filled
<1>1. CASE IsLimit(b)
  <2>1. Stored(b.limit) \in Nat
    BY <1>1, Rounding DEF IsLimit, PaperOrder
  <2>2. StoredOrder(b) = [b EXCEPT !.limit = Stored(b.limit)]
    BY <1>1 DEF StoredOrder
  <2> HIDE DEF Stored
  <2> QED
    BY <2>1, <2>2 DEF PaperOrder, PaperOrderModel
<1>2. CASE ~IsLimit(b)
  BY <1>2 DEF StoredOrder, PaperOrder, PaperOrderModel
<1> QED BY <1>1, <1>2

\* A row that can be read makes an order.
LEMMA ReadRow ==
  ASSUME NEW b \in PaperOrderModel, Readable(b)
  PROVE  b \in PaperOrder
BY DEF Readable, PaperOrderModel, PaperOrder

\* Filling or cancelling leaves the limit alone: the row it began with can be read.
LEMMA OrderRead ==
  ASSUME NEW b \in PaperOrderModel, Filled(b) \in PaperOrder \/ Cancelled(b) \in PaperOrder
  PROVE  Readable(b) /\ b \in PaperOrder
<1>1. Filled(b).limit = b.limit /\ Cancelled(b).limit = b.limit
  BY DEF PaperOrderModel, Filled, RecordFill, Cancelled
<1>2. b.limit # 0
  BY <1>1, RulesAssumption DEF PaperOrder
<1> QED BY <1>2, ReadRow DEF Readable

\* The rows of the one execution of an order.
LEMMA OneRow ==
  ASSUME NEW q, NEW p
  PROVE  StoredFills(<<[quantity |-> q, price |-> p]>>)
           = <<[quantity |-> q, price |-> Stored(p)]>>
BY DEF StoredFills, StoredFill

\* Every plan takes the account first; processing goes on with the order and
\* the position, cancelling with the order, the others with the position.
LEMMA Plans ==
  ASSUME NEW op \in Op
  PROVE  /\ LockPlan(op)[1] = "account"
         /\ Len(LockPlan(op)) = IF op = "process" THEN 3 ELSE 2
         /\ LockPlan(op)[2] = IF op \in {"process", "cancel"} THEN "order" ELSE "position"
         /\ op = "process" => LockPlan(op)[3] = "position"
BY DEF Op, LockPlan

\* debit and credit, buy and sell keep cash and quantity non-negative once
\* ensure_can_buy or Position.sell has let the trade pass.
LEMMA TradesStayCovered ==
  ASSUME NEW b \in PaperOrder, b.filled = 0, NEW p \in Price,
         NEW f \in Nat, NEW s \in Nat, Covered(b, p, f, s)
  PROVE  FundsAfter(b, p, f) \in Nat /\ SharesAfter(b, s) \in Nat
<1>1. Remaining(b) \in Nat /\ p \in Nat
  BY FilledWhole, RulesAssumption
<1>2. p * Remaining(b) \in Nat
  BY <1>1
<1> QED
  BY <1>1, <1>2 DEF Covered, FundsAfter, SharesAfter

-----------------------------------------------------------------------------
(* The invariant is inductive.                                              *)

\* While the books stay as they are, a step of one session keeps Inv when what
\* it becomes satisfies the invariant of a session (no other session notices).
LEMMA LocalStep ==
  ASSUME Inv, NEW c \in Session, NEW t \in Transaction \cup {Idle},
         tx' = [tx EXCEPT ![c] = t], UNCHANGED books,
         quote' \in [Symbol -> Quote], batch' \in [Worker -> SUBSET Order],
         Discovered', SessionInv(t), \A d \in Session \ {c} : Apart(t, tx[d])
  PROVE  Inv'
<1> USE DEF books
<1>1. TypeOK'
  BY DEF Inv, TypeOK
<1>2. ASSUME NEW d \in Session PROVE SessionInv(tx[d])'
  <2>1. tx'[d] = IF d = c THEN t ELSE tx[d]
    BY DEF Inv, TypeOK
  <2>2. SessionInv(tx'[d])
    BY <2>1 DEF Inv
  <2> QED
    <3>1. (Counted(tx[d]) /\ Opening(tx[d]))' = (Counted(tx'[d]) /\ Opening(tx'[d]))
      BY DEF Counted, Opening, Persisted
    <3>2. Routed(tx[d])' = Routed(tx'[d]) /\ Current(tx[d])' = Current(tx'[d])
      BY DEF Routed, Current, Persisted
    <3>3. Base(tx[d])' = Base(tx'[d])
      BY DEF Base, Persisted
    <3>4. \A q : Settled(tx[d], Base(tx[d]), q)' = Settled(tx'[d], Base(tx'[d]), q)
      BY <3>3 DEF Settled
    <3>5. Outcome(tx[d])' = Outcome(tx'[d])
      BY <3>3, <3>4 DEF Outcome
    <3> QED
      BY <2>2, <3>1, <3>2, <3>5 DEF SessionInv
<1>3. ASSUME NEW d \in Session, NEW e \in Session, d # e
      PROVE  Apart(tx[d], tx[e])'
  <2>1. /\ tx'[d] = IF d = c THEN t ELSE tx[d]
        /\ tx'[e] = IF e = c THEN t ELSE tx[e]
    BY DEF Inv, TypeOK
  <2>2. Apart(tx[d], tx[e])
    BY <1>3 DEF Inv
  <2>3. Apart(tx'[d], tx'[e])
    BY <1>3, <2>1, <2>2 DEF Apart
  <2> QED
    BY <2>3 DEF Apart, Persisted
<1>4. \A o \in Order : RowInv(o)'
  BY DEF Inv, RowInv
<1>5. EachOrderFilledOnce'
  BY DEF Inv, EachOrderFilledOnce
<1> QED
  BY <1>1, <1>2, <1>3, <1>4, <1>5 DEF Inv

\* A transaction that ends without writing leaves nothing behind.
LEMMA EndStep ==
  ASSUME Inv, NEW c \in Session, End(c), UNCHANGED <<books, quote>>,
         batch' \in [Worker -> SUBSET Order], Discovered'
  PROVE  Inv'
<1>1. SessionInv(Idle) /\ \A d \in Session \ {c} : Apart(Idle, tx[d])
  BY DEF SessionInv, Apart
<1> QED
  BY <1>1, LocalStep DEF End, Inv, TypeOK

\* What session c commits is invisible to any other session: the rows another
\* one has read belong to another account, the order it routed on keeps its account.
LEMMA Elsewhere ==
  ASSUME Inv, NEW c \in Session, tx[c] # Idle, tx[c].locked >= 1,
         \A o \in Order : o # tx[c].id => orders'[o] = orders[o],
         orders'[tx[c].id] \in PaperOrderModel,
         orders'[tx[c].id].account = tx[c].order.account,
         \A a \in Account : a # tx[c].order.account =>
           cash'[a] = cash[a] /\ held'[a] = held[a],
         NEW d \in Session, d # c, tx'[d] = tx[d]
  PROVE  SessionInv(tx[d])'
<1> DEFINE t == tx[c]  u == tx[d]
<1> SUFFICES ASSUME u # Idle PROVE SessionInv(tx[d])'
  BY DEF SessionInv
<1>1. /\ t \in Transaction /\ u \in Transaction
      /\ SessionInv(t) /\ SessionInv(u) /\ Apart(t, u)
  BY DEF Inv, TypeOK
<1>2. /\ Counted(u) /\ Routed(u) /\ Opening(u) /\ Current(u) /\ Outcome(u) /\ Routed(t)
  BY <1>1 DEF SessionInv
<1>3. u.locked >= 1 => u.order.account # t.order.account
  BY <1>1 DEF Apart
<1>4. u.locked >= 1 => orders'[u.id] = orders[u.id]
  BY <1>1, <1>2, <1>3 DEF Apart, Routed, Transaction
<1>5. u.locked >= 1 => /\ cash'[u.order.account] = cash[u.order.account]
                       /\ held'[u.order.account] = held[u.order.account]
  BY <1>1, <1>3 DEF Transaction, PaperOrder
<1>6. u.decided => u.locked >= 1
  BY <1>1, <1>2, Plans DEF Counted, Transaction
<1>7. Routed(u)'
  <2>1. CASE u.id = t.id
    BY <1>1, <1>2, <2>1, TradingAssumption DEF Routed, Apart, Persisted
  <2>2. CASE u.id # t.id
    BY <1>1, <1>2, <2>2 DEF Routed, Persisted, Transaction
  <2> QED BY <2>1, <2>2
<1>8. Current(u)'
  <2>1. Len(LockPlan(u.op)) >= 2
    BY <1>1, Plans DEF Transaction
  <2>2. u.locked \in Nat
    BY <1>1 DEF Transaction
  <2> QED
    BY <1>2, <1>4, <1>5, <2>1, <2>2 DEF Current, Persisted
<1>9. Base(u).account = u.order.account
  BY <1>2 DEF Base, Routed, NewOrder
<1>10. u.decided => Base(u)' = Base(u)
  BY <1>4, <1>6 DEF Base, Persisted
<1>11. ASSUME u.decided, NEW p, Settled(u, Base(u), p) PROVE Settled(u, Base(u), p)'
  <2>1. /\ cash'[Base(u).account] = cash[Base(u).account]
        /\ held'[Base(u).account] = held[Base(u).account]
    BY <1>5, <1>6, <1>9, <1>11
  <2> QED
    BY <1>10, <1>11, <2>1 DEF Settled
<1>12. Outcome(u)'
  BY <1>2, <1>10, <1>11 DEF Outcome
<1>13. Counted(u)' /\ Opening(u)'
  BY <1>2 DEF Counted, Opening, Persisted
<1> QED
  BY <1>7, <1>8, <1>12, <1>13 DEF SessionInv

\* Beginning: a routing read finds the order's account, a new id is nobody's.
LEMMA StartStep ==
  ASSUME Inv, NEW c \in Session, NEW op \in Op, NEW o \in Order,
         NEW order \in PaperOrder, Start(c, op, o, order),
         batch' \in [Worker -> SUBSET Order], Discovered',
         op \in {"process", "cancel"} => orders[o] # NoOrder /\ order = orders[o],
         op \notin {"process", "cancel"} =>
           /\ FreshId(o) /\ order.status = "NEW" /\ order.filled = 0
           /\ (op = "submit") = IsLimit(order)
           /\ op = "submit" => order.limit \in Limit
  PROVE  Inv'
<1> DEFINE t == [op |-> op, id |-> o, locked |-> 0, decided |-> FALSE,
                 order |-> order, funds |-> 0, shares |-> 0, fill |-> <<>>]
<1>1. t \in Transaction
  BY DEF Transaction
<1>2. tx' = [tx EXCEPT ![c] = t] /\ UNCHANGED <<books, quote>>
  BY DEF Start
<1>3. Len(LockPlan(op)) >= 2
  BY Plans
<1>4. SessionInv(t)
  <2>1. Counted(t) /\ Current(t) /\ Outcome(t)
    BY <1>3 DEF Counted, Current, Outcome
  <2>2. Routed(t) /\ Opening(t)
    BY DEF Routed, Opening, Persisted, FreshId
  <2> QED BY <2>1, <2>2 DEF SessionInv
<1>5. ASSUME NEW d \in Session \ {c} PROVE Apart(t, tx[d])
  <2> SUFFICES ASSUME tx[d] # Idle, ~Persisted(t) \/ ~Persisted(tx[d])
               PROVE  o # tx[d].id
    BY DEF Apart
  <2>1. CASE ~Persisted(t)
    BY <2>1 DEF Persisted, FreshId, InTransaction
  <2>2. CASE Persisted(t)
    BY <2>2 DEF Persisted, Inv, SessionInv, Routed
  <2> QED BY <2>1, <2>2
<1> HIDE DEF t
<1> QED
  BY <1>1, <1>2, <1>4, <1>5, LocalStep DEF Inv, TypeOK

\* Locking: the account is nobody else's, and the copy made is the row.
LEMMA LockStep ==
  ASSUME Inv, NEW c \in Session, Lock(c)
  PROVE  Inv'
<1> DEFINE u == tx[c]
<1>1. /\ u # Idle /\ u \in Transaction /\ SessionInv(u)
      /\ u.locked < Len(LockPlan(u.op))
      /\ UNCHANGED <<books, quote, batch>>
  BY DEF Lock, LockAccount, LockOrder, LockPosition, CanLock, InTransaction, Inv, TypeOK
<1>2. /\ u.op \in Op /\ u.locked \in Nat /\ u.order \in PaperOrder /\ u.id \in Order
      /\ Counted(u) /\ Routed(u) /\ Opening(u) /\ Current(u) /\ ~u.decided
  BY <1>1 DEF SessionInv, Counted, Transaction
<1>3. /\ quote' \in [Symbol -> Quote] /\ batch' \in [Worker -> SUBSET Order]
      /\ Discovered'
  BY <1>1 DEF Inv, TypeOK, Discovered, books
<1>4. ASSUME LockAccount(c) PROVE Inv'
  <2> DEFINE t == [u EXCEPT !.locked = @ + 1, !.funds = cash[u.order.account]]
  <2>1. u.locked = 0 /\ LockPlan(u.op)[u.locked + 1] = "account"
    BY <1>1, <1>2, <1>4, Plans DEF LockAccount, CanLock, Counted
  <2>2. t \in Transaction
    <3>1. cash[u.order.account] \in Nat
      BY <1>2 DEF Inv, TypeOK, PaperOrder
    <3>2. u.locked + 1 \in 0 .. 3
      BY <2>1
    <3> QED
      BY <1>1, <3>1, <3>2 DEF Transaction
  <2>3. tx' = [tx EXCEPT ![c] = t]
    BY <1>4 DEF LockAccount, Inv, TypeOK
  <2>4. SessionInv(t)
    BY <1>2, <2>1, <2>2, Plans
       DEF SessionInv, Counted, Routed, Opening, Current, Outcome, Persisted, Transaction
  <2>5. ASSUME NEW d \in Session \ {c} PROVE Apart(t, tx[d])
    <3> SUFFICES ASSUME tx[d] # Idle PROVE Apart(t, tx[d])
      BY DEF Apart
    <3>1. /\ tx[d] \in Transaction /\ Counted(tx[d]) /\ Apart(u, tx[d])
      BY DEF Inv, TypeOK, SessionInv
    <3>2. ASSUME tx[d].locked >= 1 PROVE tx[d].order.account # u.order.account
      <4>1. LockPlan(tx[d].op)[1] = "account" /\ 1 \in 1 .. tx[d].locked
        BY <3>1, <3>2, Plans DEF Transaction
      <4>2. Holds(d, "account")
        BY <4>1 DEF Holds, InTransaction
      <4> QED
        BY <1>4, <4>2 DEF LockAccount, CanLock, SameRow
    <3> QED
      BY <1>1, <3>1, <3>2 DEF Apart, Persisted, Transaction
  <2> HIDE DEF t
  <2> QED
    BY <1>1, <1>3, <2>2, <2>3, <2>4, <2>5, LocalStep
<1>5. ASSUME LockOrder(c) PROVE Inv'
  <2> DEFINE t == [u EXCEPT !.locked = @ + 1, !.order = orders[u.id]]
  <2>1. u.locked = 1 /\ u.op \in {"process", "cancel"}
    BY <1>1, <1>2, <1>5, Plans DEF LockOrder, CanLock, Counted
  <2>2. orders[u.id] # NoOrder /\ u.order.account = orders[u.id].account
    BY <1>2, <2>1 DEF Routed, Persisted
  <2>3. t \in Transaction
    <3>1. orders[u.id] \in PaperOrder
      <4>1. orders[u.id] \in PaperOrderModel /\ Readable(orders[u.id])
        BY <1>2, <1>5, <2>2 DEF Inv, TypeOK, LockOrder, CanRead
      <4> QED BY <4>1, ReadRow
    <3>2. u.locked + 1 \in 0 .. 3
      BY <2>1
    <3> QED
      BY <1>1, <3>1, <3>2 DEF Transaction
  <2>4. tx' = [tx EXCEPT ![c] = t]
    BY <1>5 DEF LockOrder, Inv, TypeOK
  <2>5. SessionInv(t)
    BY <1>1, <1>2, <2>1, <2>2, <2>3, Plans, SMTT(30)
       DEF SessionInv, Counted, Routed, Opening, Current, Outcome, Persisted, Transaction
  <2>6. ASSUME NEW d \in Session \ {c} PROVE Apart(t, tx[d])
    BY <1>1, <2>1, <2>2 DEF Inv, Apart, Persisted, Transaction
  <2> HIDE DEF t
  <2> QED
    BY <1>1, <1>3, <2>3, <2>4, <2>5, <2>6, LocalStep
<1>6. ASSUME LockPosition(c) PROVE Inv'
  <2> DEFINE t == [u EXCEPT !.locked = @ + 1,
                            !.shares = held[u.order.account][u.order.symbol]]
  <2>1. u.locked >= 1 /\ u.locked + 1 = Len(LockPlan(u.op)) /\ u.op # "cancel"
    <3>1. /\ u.locked < Len(LockPlan(u.op))
          /\ LockPlan(u.op)[u.locked + 1] = "position"
      BY <1>6 DEF LockPosition, CanLock
    <3>2. Len(LockPlan(u.op)) = IF u.op = "process" THEN 3 ELSE 2
      BY <1>2, Plans
    <3>3. CASE u.locked = 0
      BY <1>2, <3>1, <3>3, Plans
    <3>4. CASE u.locked = 1
      <4>1. LockPlan(u.op)[2] = "position"
        BY <3>1, <3>4
      <4>2. u.op \notin {"process", "cancel"}
        BY <1>2, <4>1, Plans
      <4> QED BY <3>2, <3>4, <4>2
    <3>5. CASE u.locked = 2
      BY <3>1, <3>2, <3>5
    <3> QED
      BY <1>2, <3>1, <3>2, <3>3, <3>4, <3>5
  <2>2. t \in Transaction
    <3>1. held[u.order.account][u.order.symbol] \in Nat
      BY <1>2 DEF Inv, TypeOK, PaperOrder
    <3>2. u.locked + 1 \in 0 .. 3
      <4>1. Len(LockPlan(u.op)) \in {2, 3}
        BY <1>2, Plans
      <4>2. u.locked + 1 \in {2, 3}
        BY <2>1, <4>1
      <4> QED BY <4>2
    <3> QED
      BY <1>1, <3>1, <3>2 DEF Transaction
  <2>3. tx' = [tx EXCEPT ![c] = t]
    BY <1>6 DEF LockPosition, Inv, TypeOK
  <2>4. SessionInv(t)
    <3>1. /\ t.op = u.op /\ t.id = u.id /\ t.order = u.order /\ t.funds = u.funds
          /\ t.locked = u.locked + 1 /\ t.decided = u.decided /\ t.fill = u.fill
          /\ t.shares = held[u.order.account][u.order.symbol]
      BY <1>1 DEF Transaction
    <3> HIDE DEF t
    <3>2. Counted(t) /\ Routed(t) /\ Opening(t) /\ Outcome(t)
      BY <1>2, <2>1, <3>1 DEF Counted, Routed, Opening, Outcome, Persisted
    <3>3. Current(t)
      <4>1. Persisted(t) => u.locked >= 2
        <5>1. Persisted(t) => u.op = "process"
          BY <2>1, <3>1 DEF Persisted
        <5> QED BY <1>2, <2>1, <5>1, Plans
      <4> QED
        BY <1>2, <2>1, <3>1, <4>1 DEF Current, Persisted
    <3> QED BY <3>2, <3>3 DEF SessionInv
  <2>5. ASSUME NEW d \in Session \ {c} PROVE Apart(t, tx[d])
    BY <1>1, <2>1 DEF Inv, Apart, Persisted, Transaction
  <2> HIDE DEF t
  <2> QED
    BY <1>1, <1>3, <2>2, <2>3, <2>4, <2>5, LocalStep
<1> QED
  BY <1>4, <1>5, <1>6 DEF Lock

\* What a session that is ready to decide may rely on.
LEMMA ReadyFacts ==
  ASSUME Inv, NEW c \in Session, Ready(c)
  PROVE  /\ tx[c] # Idle /\ tx[c] \in Transaction /\ ~tx[c].decided
         /\ tx[c].locked = Len(LockPlan(tx[c].op)) /\ tx[c].locked >= 2
         /\ tx[c].funds = cash[tx[c].order.account]
         /\ Persisted(tx[c]) => tx[c].order = orders[tx[c].id]
         /\ tx[c].op # "cancel" =>
              tx[c].shares = held[tx[c].order.account][tx[c].order.symbol]
         /\ Routed(tx[c]) /\ Opening(tx[c])
<1>1. /\ tx[c] # Idle /\ tx[c] \in Transaction /\ SessionInv(tx[c]) /\ ~tx[c].decided
      /\ tx[c].locked = Len(LockPlan(tx[c].op))
  BY DEF Ready, InTransaction, Inv, TypeOK
<1>2. tx[c].locked >= 2
  BY <1>1, Plans DEF Transaction
<1> QED
  BY <1>1, <1>2 DEF SessionInv, Current, Transaction

\* An order as a request builds it is the order of a new PaperOrder.
LEMMA NewOrders ==
  ASSUME NEW b \in PaperOrder, b.status = "NEW", b.filled = 0
  PROVE  b = NewOrder(b.account, b.symbol, b.side, b.quantity, b.limit)
BY DEF PaperOrder, NewOrder

\* Deciding: the outcome is one operation on the books as they are.
LEMMA DecideStep ==
  ASSUME Inv, NEW c \in Session, Decide(c)
  PROVE  Inv'
<1> DEFINE u == tx[c]
<1>1. Ready(c) /\ UNCHANGED <<books, quote, batch>>
  BY DEF Decide, Trade, Enter, Withdraw, Leave, Refuse
<1>2. /\ u # Idle /\ u \in Transaction /\ ~u.decided
      /\ u.locked = Len(LockPlan(u.op)) /\ u.locked >= 2
      /\ u.funds = cash[u.order.account]
      /\ Persisted(u) => u.order = orders[u.id]
      /\ u.op # "cancel" => u.shares = held[u.order.account][u.order.symbol]
      /\ Routed(u) /\ Opening(u)
  BY <1>1, ReadyFacts
<1>3. /\ quote' \in [Symbol -> Quote] /\ batch' \in [Worker -> SUBSET Order]
      /\ Discovered'
  BY <1>1 DEF Inv, TypeOK, Discovered, books
<1>4. u.op \in Op /\ u.order \in PaperOrder /\ u.id \in Order
      /\ u.funds \in Nat /\ u.shares \in Nat
  BY <1>2 DEF Transaction
<1>5. ASSUME NEW t \in Transaction, tx' = [tx EXCEPT ![c] = t], t.decided,
             t.op = u.op, t.id = u.id, t.locked = u.locked,
             t.order.account = u.order.account, Outcome(t)
      PROVE  Inv'
  <2>1. SessionInv(t)
    BY <1>2, <1>5 DEF SessionInv, Counted, Routed, Opening, Current, Persisted
  <2>2. ASSUME NEW d \in Session \ {c} PROVE Apart(t, tx[d])
    BY <1>2, <1>5 DEF Inv, Apart, Persisted
  <2> QED
    BY <1>1, <1>3, <1>5, <2>1, <2>2, LocalStep
<1>6. ASSUME Trade(c) PROVE Inv'
  <2> DEFINE b == u.order
             p == TradePrice(c)
             t == [u EXCEPT !.decided = TRUE, !.order = Filled(b),
                            !.funds = FundsAfter(b, p, @), !.shares = SharesAfter(b, @),
                            !.fill = <<[quantity |-> Remaining(b), price |-> p]>>]
  <2>1. /\ u.op \in {"market", "process"} /\ ShouldTrade(c)
        /\ Covered(b, p, u.funds, u.shares)
        /\ tx' = [tx EXCEPT ![c] = t]
    BY <1>6, <1>2 DEF Trade, ShouldTrade, CanTrade, Inv, TypeOK
  <2>2. p \in Price
    <3>1. quote[b.symbol] \in Quote
      BY <1>4 DEF Inv, TypeOK, PaperOrder
    <3> QED
      BY <3>1 DEF TradePrice, PriceFor, Quote
  <2>3. b.filled = 0 /\ (u.op = "process" => b.status = "PENDING")
    BY <1>2, <1>4, <2>1 DEF ShouldTrade, Persisted, Opening, Routed, Inv, RowInv
  <2>4. FundsAfter(b, p, u.funds) \in Nat /\ SharesAfter(b, u.shares) \in Nat
    BY <1>4, <2>1, <2>2, <2>3, TradesStayCovered
  <2>5. /\ Filled(b) \in PaperOrder /\ Remaining(b) \in Nat
        /\ Filled(b).account = b.account /\ Filled(b).symbol = b.symbol
        /\ Filled(b).side = b.side /\ Filled(b).limit = b.limit
        /\ Filled(b).quantity = b.quantity
    BY <1>4, <2>3, FilledWhole
  <2>6. <<[quantity |-> Remaining(b), price |-> p]>> \in Seq(Fill)
    <3>1. p \in Nat
      BY <2>2, RulesAssumption
    <3> HIDE DEF p
    <3>2. [quantity |-> Remaining(b), price |-> p] \in Fill
      BY <2>5, <3>1 DEF Fill
    <3> QED BY <3>2
  <2> HIDE DEF p
  <2>7. t \in Transaction
    BY <1>2, <2>4, <2>5, <2>6 DEF Transaction
  <2>8. /\ t.op = u.op /\ t.id = u.id /\ t.locked = u.locked /\ t.decided
        /\ t.order = Filled(b) /\ t.funds = FundsAfter(b, p, u.funds)
        /\ t.shares = SharesAfter(b, u.shares)
        /\ t.fill = <<[quantity |-> Remaining(b), price |-> p]>>
    BY <1>2 DEF Transaction
  <2> HIDE DEF t
  <2>9. Base(t) = b
    <3>1. CASE u.op = "process"
      BY <1>2, <2>8, <3>1 DEF Base, Persisted
    <3>2. CASE u.op = "market"
      BY <1>2, <1>4, <2>5, <2>8, <3>2, NewOrders DEF Base, Persisted, Opening
    <3> QED BY <2>1, <3>1, <3>2
  <2>10. Settled(t, Base(t), p)
    BY <1>2, <2>1, <2>8, <2>9 DEF Settled
  <2>11. Outcome(t)
    <3>1. CASE u.op = "process"
      <4>1. IsLimit(b) /\ b.status = "PENDING" /\ Triggered(b, p)
        BY <2>1, <3>1 DEF ShouldTrade, p
      <4> QED
        BY <2>2, <2>8, <2>9, <2>10, <3>1, <4>1 DEF Outcome
    <3>2. CASE u.op = "market"
      <4>1. ~IsLimit(t.order)
        BY <1>2, <2>5, <2>8, <3>2 DEF Opening, Persisted, IsLimit
      <4> QED
        BY <2>2, <2>8, <2>10, <3>2, <4>1 DEF Outcome
    <3> QED BY <2>1, <3>1, <3>2
  <2> QED
    BY <1>5, <2>1, <2>5, <2>7, <2>8, <2>11
<1>7. ASSUME Enter(c) PROVE Inv'
  <2> DEFINE t == [u EXCEPT !.decided = TRUE, !.order = Pending(@)]
  <2>1. u.op = "submit" /\ tx' = [tx EXCEPT ![c] = t]
    BY <1>7 DEF Enter, Inv, TypeOK
  <2>2. Pending(u.order) \in PaperOrder
    BY <1>4 DEF Pending, PaperOrder, Status
  <2>3. t \in Transaction
    BY <1>2, <2>2 DEF Transaction
  <2>4. /\ t.op = u.op /\ t.id = u.id /\ t.locked = u.locked /\ t.decided
        /\ t.order = Pending(u.order) /\ t.fill = u.fill
    BY <1>2 DEF Transaction
  <2>5. /\ t.order.account = u.order.account /\ t.order.symbol = u.order.symbol
        /\ t.order.side = u.order.side /\ t.order.quantity = u.order.quantity
        /\ t.order.limit = u.order.limit
    BY <1>4, <2>4 DEF Pending, PaperOrder
  <2> HIDE DEF t
  <2>6. Base(t) = u.order /\ u.order.limit \in Limit /\ u.fill = <<>>
    <3>1. /\ u.fill = <<>> /\ IsLimit(u.order) /\ u.order.limit \in Limit
          /\ u.order.status = "NEW" /\ u.order.filled = 0
      BY <1>2, <2>1 DEF Opening, Persisted, IsLimit
    <3>2. u.order = NewOrder(u.order.account, u.order.symbol, u.order.side,
                             u.order.quantity, u.order.limit)
      BY <1>4, <3>1, NewOrders
    <3>3. Base(t) = NewOrder(u.order.account, u.order.symbol, u.order.side,
                             u.order.quantity, u.order.limit)
      BY <2>1, <2>4, <2>5 DEF Base, Persisted
    <3> QED BY <3>1, <3>2, <3>3
  <2>7. Outcome(t)
    BY <2>1, <2>4, <2>5, <2>6 DEF Outcome
  <2> QED
    BY <1>5, <2>1, <2>3, <2>4, <2>5, <2>7
<1>8. ASSUME Withdraw(c) PROVE Inv'
  <2> DEFINE t == [u EXCEPT !.decided = TRUE, !.order = Cancelled(@)]
  <2>1. u.op = "cancel" /\ Cancellable(u.order) /\ tx' = [tx EXCEPT ![c] = t]
    BY <1>8 DEF Withdraw, Inv, TypeOK
  <2>2. Cancelled(u.order) \in PaperOrder /\ Cancelled(u.order).account = u.order.account
    BY <1>4 DEF Cancelled, PaperOrder, Status
  <2>3. t \in Transaction
    BY <1>2, <2>2 DEF Transaction
  <2>4. /\ t.op = u.op /\ t.id = u.id /\ t.locked = u.locked /\ t.decided
        /\ t.order = Cancelled(u.order) /\ t.fill = u.fill
    BY <1>2 DEF Transaction
  <2> HIDE DEF t
  <2>5. Outcome(t)
    BY <1>2, <2>1, <2>4 DEF Outcome, Base, Persisted, Opening
  <2> QED
    BY <1>5, <2>1, <2>2, <2>3, <2>4, <2>5
<1>9. ASSUME Leave(c) PROVE Inv'
  <2> DEFINE t == [u EXCEPT !.decided = TRUE]
  <2>1. u.op = "process" /\ tx' = [tx EXCEPT ![c] = t]
    BY <1>9 DEF Leave, Inv, TypeOK
  <2>2. t \in Transaction
    BY <1>2 DEF Transaction
  <2>3. /\ t.op = u.op /\ t.id = u.id /\ t.locked = u.locked /\ t.decided
        /\ t.order = u.order /\ t.fill = u.fill
    BY <1>2 DEF Transaction
  <2> HIDE DEF t
  <2>4. Outcome(t)
    BY <1>2, <2>1, <2>3 DEF Outcome, Opening
  <2> QED
    BY <1>5, <2>1, <2>2, <2>3, <2>4
<1>10. ASSUME Refuse(c) PROVE Inv'
  BY <1>1, <1>3, <1>10, EndStep DEF Refuse
<1> QED
  BY <1>6, <1>7, <1>8, <1>9, <1>10 DEF Decide

\* A trade that is about to be committed settles an order nothing was filled of.
LEMMA TradeFacts ==
  ASSUME Inv, NEW c \in Session, CommitTrade(c)
  PROVE  LET u == tx[c]  b == Base(tx[c]) IN
         /\ u # Idle /\ u \in Transaction /\ u.locked >= 1
         /\ b \in PaperOrder /\ b.filled = 0
         /\ u.order.account = b.account /\ u.order.symbol = b.symbol
         /\ \/ /\ orders[u.id] = NoOrder
               /\ b = NewOrder(b.account, b.symbol, b.side, b.quantity, NoLimit)
               /\ \E p \in Price : Settled(u, b, p)
            \/ /\ orders[u.id] # NoOrder /\ b = orders[u.id] /\ b.status = "PENDING"
               /\ Readable(b) /\ \E p \in Price : Triggered(b, p) /\ Settled(u, b, p)
<1> DEFINE u == tx[c]  b == Base(u)
<1>1. u # Idle /\ u \in Transaction /\ u.decided /\ u.fill # <<>>
  BY DEF CommitTrade, InTransaction, Inv, TypeOK
<1>2. Counted(u) /\ Routed(u) /\ Outcome(u)
  BY <1>1 DEF Inv, SessionInv
<1>3. u.op \in Op /\ u.id \in Order /\ u.order \in PaperOrder /\ u.locked \in Nat
  BY <1>1 DEF Transaction
<1>4. u.locked >= 1
  BY <1>1, <1>2, <1>3, Plans DEF Counted
<1>5. \/ u.op = "market" /\ ~IsLimit(u.order) /\ \E p \in Price : Settled(u, b, p)
      \/ /\ u.op = "process" /\ b.status = "PENDING"
         /\ \E p \in Price : Triggered(b, p) /\ Settled(u, b, p)
  BY <1>1, <1>2 DEF Outcome
<1>6. u.order = Filled(b)
  BY <1>5 DEF Settled
<1>7. CASE u.op = "market"
  <2>1. /\ orders[u.id] = NoOrder
        /\ b = NewOrder(u.order.account, u.order.symbol, u.order.side, u.order.quantity,
                        u.order.limit)
        /\ u.order.limit = NoLimit
    BY <1>2, <1>5, <1>7 DEF Routed, Persisted, Base, IsLimit
  <2>2. b \in PaperOrder /\ b.filled = 0
    BY <1>3, <2>1 DEF PaperOrder, NewOrder, Status
  <2>3. /\ b = NewOrder(b.account, b.symbol, b.side, b.quantity, NoLimit)
        /\ u.order.account = b.account /\ u.order.symbol = b.symbol
    BY <2>1 DEF NewOrder
  <2> QED
    BY <1>1, <1>4, <1>5, <1>7, <2>1, <2>2, <2>3
<1>8. CASE u.op = "process"
  <2>1. orders[u.id] # NoOrder /\ b = orders[u.id]
    BY <1>2, <1>8 DEF Routed, Persisted, Base
  <2>2. b \in PaperOrder /\ Readable(b) /\ b.filled = 0
    <3>1. b \in PaperOrderModel /\ b.filled = 0
      BY <1>3, <1>5, <1>8, <2>1 DEF Inv, TypeOK, RowInv
    <3> QED BY <1>3, <1>6, <3>1, OrderRead
  <2>3. u.order.account = b.account /\ u.order.symbol = b.symbol
    BY <1>6, <2>2, FilledWhole
  <2> QED
    BY <1>1, <1>4, <1>5, <1>8, <2>1, <2>2, <2>3
<1> QED
  BY <1>5, <1>7, <1>8

\* A submission or cancellation that is about to be committed.
LEMMA OrderFacts ==
  ASSUME Inv, NEW c \in Session, CommitOrder(c)
  PROVE  LET u == tx[c]  b == Base(tx[c]) IN
         /\ u # Idle /\ u \in Transaction /\ u.locked >= 1
         /\ b \in PaperOrder /\ u.order.account = b.account
         /\ \/ /\ orders[u.id] = NoOrder /\ u.order = Pending(b) /\ b.limit \in Limit
               /\ b = NewOrder(b.account, b.symbol, b.side, b.quantity, b.limit)
            \/ /\ orders[u.id] # NoOrder /\ b = orders[u.id] /\ Readable(b)
               /\ Cancellable(b) /\ u.order = Cancelled(b)
<1> DEFINE u == tx[c]  b == Base(u)
<1>1. /\ u # Idle /\ u \in Transaction /\ u.decided /\ u.op \in {"submit", "cancel"}
  BY DEF CommitOrder, InTransaction, Inv, TypeOK
<1>2. Counted(u) /\ Routed(u) /\ Outcome(u)
  BY <1>1 DEF Inv, SessionInv
<1>3. u.op \in Op /\ u.id \in Order /\ u.order \in PaperOrder /\ u.locked \in Nat
  BY <1>1 DEF Transaction
<1>4. u.locked >= 1
  BY <1>1, <1>2, <1>3, Plans DEF Counted
<1>5. CASE u.op = "submit"
  <2>1. /\ orders[u.id] = NoOrder /\ u.order = Pending(b) /\ u.order.limit \in Limit
        /\ b = NewOrder(u.order.account, u.order.symbol, u.order.side, u.order.quantity,
                        u.order.limit)
    BY <1>1, <1>2, <1>5 DEF Routed, Persisted, Base, Outcome
  <2>2. b \in PaperOrder
    BY <1>3, <2>1 DEF PaperOrder, NewOrder, Status
  <2>3. /\ b = NewOrder(b.account, b.symbol, b.side, b.quantity, b.limit)
        /\ u.order.account = b.account /\ u.order.limit = b.limit
    BY <2>1 DEF NewOrder
  <2> QED
    BY <1>1, <1>4, <2>1, <2>2, <2>3
<1>6. CASE u.op = "cancel"
  <2>1. /\ orders[u.id] # NoOrder /\ b = orders[u.id]
        /\ Cancellable(b) /\ u.order = Cancelled(b) /\ u.order.account = b.account
    BY <1>1, <1>2, <1>6 DEF Routed, Persisted, Base, Outcome
  <2>2. b \in PaperOrder /\ Readable(b)
    <3>1. b \in PaperOrderModel
      BY <1>3, <2>1 DEF Inv, TypeOK
    <3> QED BY <1>3, <2>1, <3>1, OrderRead
  <2> QED
    BY <1>1, <1>4, <2>1, <2>2
<1> QED
  BY <1>1, <1>5, <1>6

\* After a commit of c the invariants of the sessions hold again.
LEMMA SessionsAfterCommit ==
  ASSUME Inv, NEW c \in Session, tx[c] # Idle, tx[c].locked >= 1,
         \A o \in Order : o # tx[c].id => orders'[o] = orders[o],
         orders'[tx[c].id] \in PaperOrderModel,
         orders'[tx[c].id].account = tx[c].order.account,
         \A a \in Account : a # tx[c].order.account =>
           cash'[a] = cash[a] /\ held'[a] = held[a],
         tx' = [tx EXCEPT ![c] = Idle], batch' = batch
  PROVE  /\ \A d \in Session : SessionInv(tx[d])'
         /\ \A d, e \in Session : d # e => Apart(tx[d], tx[e])'
         /\ Discovered'
<1>1. \A d \in Session : tx'[d] = IF d = c THEN Idle ELSE tx[d]
  BY DEF Inv, TypeOK
<1>2. ASSUME NEW d \in Session PROVE SessionInv(tx[d])'
  <2>1. CASE d = c
    BY <1>1, <2>1 DEF SessionInv
  <2>2. CASE d # c
    BY <1>1, <2>2, Elsewhere
  <2> QED BY <2>1, <2>2
<1>3. ASSUME NEW d \in Session, NEW e \in Session, d # e
      PROVE  Apart(tx[d], tx[e])'
  <2>1. CASE d = c \/ e = c
    BY <1>1, <2>1 DEF Apart
  <2>2. CASE d # c /\ e # c
    <3>1. Apart(tx[d], tx[e]) /\ tx'[d] = tx[d] /\ tx'[e] = tx[e]
      BY <1>1, <1>3, <2>2 DEF Inv
    <3> QED BY <3>1 DEF Apart, Persisted
  <2> QED BY <2>1, <2>2
<1>4. Discovered'
  BY TradingAssumption DEF Inv, TypeOK, Discovered
<1> QED BY <1>2, <1>3, <1>4

\* Committing keeps the invariant: each order is filled once and whole.
LEMMA CommitStep ==
  ASSUME Inv, NEW c \in Session, Commit(c)
  PROVE  Inv'
<1> DEFINE u == tx[c]  b == Base(u)
<1>1. ASSUME CommitTrade(c) PROVE Inv'
  <2>1. /\ u # Idle /\ u \in Transaction /\ u.locked >= 1
        /\ b \in PaperOrder /\ b.filled = 0
        /\ u.order.account = b.account /\ u.order.symbol = b.symbol
        /\ orders[u.id] = NoOrder \/ (b = orders[u.id] /\ b.status = "PENDING")
    BY <1>1, TradeFacts
  <2>2. PICK p \in Price : Settled(u, b, p)
    BY <1>1, TradeFacts
  <2>3. /\ u.id \in Order /\ u.order \in PaperOrder /\ u.funds \in Nat /\ u.shares \in Nat
        /\ u.fill \in Seq(Fill) /\ u.order.account \in Account
    BY <2>1 DEF Transaction, PaperOrder
  <2>4. /\ orders' = [orders EXCEPT ![u.id] = StoredOrder(u.order)]
        /\ cash' = [cash EXCEPT ![u.order.account] = Stored(u.funds)]
        /\ held' = [held EXCEPT ![u.order.account][u.order.symbol] = u.shares]
        /\ executions' = [executions EXCEPT ![u.id] = @ \o StoredFills(u.fill)]
        /\ tx' = [tx EXCEPT ![c] = Idle]
        /\ quote' = quote /\ batch' = batch
    BY <1>1 DEF CommitTrade, End
  <2> DEFINE r == StoredOrder(u.order)
             e == [quantity |-> u.order.quantity, price |-> Stored(p)]
  <2>8. /\ u.order.status = "FILLED" /\ u.order.filled = u.order.quantity
        /\ u.fill = <<[quantity |-> u.order.quantity, price |-> p]>>
    BY <2>1, <2>2, FilledWhole DEF Settled
  <2>11. /\ r \in PaperOrderModel /\ r.account = u.order.account
         /\ r.status = "FILLED" /\ r.filled = r.quantity
         /\ r.quantity = u.order.quantity
    BY <2>3, <2>8, Row
  <2>12. StoredFills(u.fill) = <<e>> /\ e \in Fill /\ Stored(u.funds) \in Nat
    <3>1. Stored(p) \in Nat /\ Stored(u.funds) \in Nat
      BY <2>3, Rounding, RulesAssumption
    <3>2. u.order.quantity \in Nat
      BY <2>3, RulesAssumption DEF PaperOrder
    <3>3. StoredFills(u.fill) = <<e>>
      BY <2>8, OneRow
    <3> HIDE DEF Stored
    <3> QED BY <3>1, <3>2, <3>3 DEF Fill
  <2> HIDE DEF r, e
  <2>5. TypeOK'
    <3>1. executions' \in [Order -> Seq(Fill)]
      BY <2>3, <2>4, <2>12 DEF Inv, TypeOK
    <3> QED
      BY <2>3, <2>4, <2>11, <2>12, <3>1 DEF Inv, TypeOK, r
  <2>6. /\ orders'[u.id] = r
        /\ \A o \in Order : o # u.id => orders'[o] = orders[o]
        /\ \A a \in Account : a # u.order.account => cash'[a] = cash[a] /\ held'[a] = held[a]
    BY <2>3, <2>4 DEF Inv, TypeOK, r
  <2>7. /\ \A d \in Session : SessionInv(tx[d])'
        /\ \A d, x \in Session : d # x => Apart(tx[d], tx[x])'
        /\ Discovered'
    BY <2>1, <2>3, <2>4, <2>6, <2>11, SessionsAfterCommit
  <2>9. \A o \in Order : RowInv(o)'
    BY <2>6, <2>11 DEF Inv, RowInv
  <2>10. EachOrderFilledOnce'
    <3>1. executions[u.id] = <<>>
      BY <2>1, <2>3 DEF Inv, EachOrderFilledOnce
    <3>2. executions'[u.id] = <<e>> /\ e.quantity = u.order.quantity
      <4>1. executions'[u.id] = <<>> \o <<e>>
        BY <2>3, <2>4, <2>12, <3>1 DEF Inv, TypeOK
      <4> QED
        BY <2>12, <4>1 DEF e
    <3>3. \A o \in Order : o # u.id => executions'[o] = executions[o]
      BY <2>3, <2>4 DEF Inv, TypeOK
    <3>4. orders'[u.id] # NoOrder
      BY <2>6, <2>11, TradingAssumption
    <3>5. /\ Len(executions'[u.id]) = 1
          /\ executions'[u.id][1].quantity = orders'[u.id].quantity
      BY <2>6, <2>11, <3>2
    <3>6. ASSUME NEW o \in Order, o # u.id
          PROVE  IF orders'[o] # NoOrder /\ orders'[o].status = "FILLED"
                   THEN /\ Len(executions'[o]) = 1
                        /\ executions'[o][1].quantity = orders'[o].quantity
                        /\ orders'[o].filled = orders'[o].quantity
                   ELSE executions'[o] = <<>>
      BY <2>6, <3>3, <3>6 DEF Inv, EachOrderFilledOnce
    <3> QED
      BY <2>6, <2>11, <3>4, <3>5, <3>6 DEF EachOrderFilledOnce
  <2> QED
    BY <2>5, <2>7, <2>9, <2>10 DEF Inv
<1>2. ASSUME CommitOrder(c) PROVE Inv'
  <2>1. /\ u # Idle /\ u \in Transaction /\ u.locked >= 1
        /\ b \in PaperOrder /\ u.order.account = b.account
        /\ \/ orders[u.id] = NoOrder /\ u.order = Pending(b) /\ b.filled = 0
           \/ orders[u.id] # NoOrder /\ b = orders[u.id] /\ Cancellable(b)
              /\ u.order = Cancelled(b)
    <3> DEFINE n == NewOrder(b.account, b.symbol, b.side, b.quantity, b.limit)
    <3>1. n.filled = 0
      BY DEF NewOrder
    <3> HIDE DEF n
    <3> QED
      BY <1>2, <3>1, OrderFacts DEF n
  <2>2. u.id \in Order /\ u.order \in PaperOrder /\ u.order.account \in Account
    BY <2>1 DEF Transaction, PaperOrder
  <2> DEFINE r == StoredOrder(u.order)
  <2>3. /\ orders' = [orders EXCEPT ![u.id] = r]
        /\ UNCHANGED <<cash, held, executions, quote, batch>>
        /\ tx' = [tx EXCEPT ![c] = Idle]
    BY <1>2 DEF CommitOrder, End
  <2>10. /\ r \in PaperOrderModel /\ r.account = u.order.account
         /\ r.status = u.order.status /\ r.filled = u.order.filled
    BY <2>2, Row
  <2> HIDE DEF r
  <2>4. TypeOK'
    BY <2>2, <2>3, <2>10 DEF Inv, TypeOK
  <2>5. orders'[u.id] = r /\ \A o \in Order : o # u.id => orders'[o] = orders[o]
    BY <2>2, <2>3 DEF Inv, TypeOK
  <2>6. /\ \A d \in Session : SessionInv(tx[d])'
        /\ \A d, e \in Session : d # e => Apart(tx[d], tx[e])'
        /\ Discovered'
    BY <2>1, <2>2, <2>3, <2>5, <2>10, SessionsAfterCommit
  <2>7. u.order.status \in {"PENDING", "CANCELLED"} /\ u.order.filled = 0
    <3>1. CASE orders[u.id] = NoOrder
      BY <2>1, <3>1 DEF Pending, PaperOrder
    <3>2. CASE orders[u.id] # NoOrder
      <4>1. b.filled = 0
        BY <2>1, <2>2, <3>2 DEF Inv, RowInv, Cancellable
      <4> QED BY <2>1, <3>2, <4>1 DEF Cancelled, PaperOrder
    <3> QED BY <3>1, <3>2
  <2>8. \A o \in Order : RowInv(o)'
    BY <2>5, <2>7, <2>10 DEF Inv, RowInv
  <2>9. EachOrderFilledOnce'
    <3>1. executions[u.id] = <<>>
      BY <2>1, <2>2 DEF Inv, EachOrderFilledOnce, Cancellable
    <3> QED
      BY <2>3, <2>5, <2>7, <2>10, <3>1 DEF Inv, EachOrderFilledOnce
  <2> QED
    BY <2>4, <2>6, <2>8, <2>9 DEF Inv
<1>3. ASSUME CommitNothing(c) PROVE Inv'
  BY <1>3, EndStep DEF CommitNothing, Inv, TypeOK, Discovered, books
<1> QED
  BY <1>1, <1>2, <1>3 DEF Commit

\* Quotes and discovery touch no row and no transaction.
LEMMA AsideStep ==
  ASSUME Inv, UNCHANGED <<books, tx>>,
         quote' \in [Symbol -> Quote], batch' \in [Worker -> SUBSET Order], Discovered'
  PROVE  Inv'
<1> USE DEF books
<1>1. TypeOK' /\ EachOrderFilledOnce' /\ \A o \in Order : RowInv(o)'
  BY DEF Inv, TypeOK, EachOrderFilledOnce, RowInv
<1>2. ASSUME NEW d \in Session PROVE SessionInv(tx[d])'
  <2>1. SessionInv(tx[d])
    BY DEF Inv
  <2>2. Base(tx[d])' = Base(tx[d])
    BY DEF Base, Persisted
  <2>3. \A q : Settled(tx[d], Base(tx[d]), q)' = Settled(tx[d], Base(tx[d]), q)
    BY <2>2 DEF Settled
  <2>4. Outcome(tx[d])' = Outcome(tx[d])
    BY <2>2, <2>3 DEF Outcome
  <2>5. /\ Counted(tx[d])' = Counted(tx[d]) /\ Routed(tx[d])' = Routed(tx[d])
        /\ Opening(tx[d])' = Opening(tx[d]) /\ Current(tx[d])' = Current(tx[d])
    BY DEF Counted, Routed, Opening, Current, Persisted
  <2> QED BY <2>1, <2>4, <2>5 DEF SessionInv
<1>3. \A d, e \in Session : d # e => Apart(tx[d], tx[e])'
  BY DEF Inv, Apart, Persisted
<1> QED BY <1>1, <1>2, <1>3 DEF Inv

\* The invariant holds at the start and after every step.
LEMMA Inductive == (Init => Inv) /\ (Inv /\ [Next]_vars => Inv')
<1>1. ASSUME Init PROVE Inv
  <2>1. TypeOK /\ Discovered /\ EachOrderFilledOnce
    BY <1>1, TradingAssumption DEF Init, TypeOK, Discovered, EachOrderFilledOnce
  <2> QED
    BY <1>1, <2>1 DEF Init, Inv, SessionInv, Apart, RowInv
<1>2. ASSUME Inv, NEW c \in Session, Request(c) PROVE Inv'
  <2>1. batch' = batch /\ UNCHANGED books
    BY <1>2 DEF Request, BeginMarket, BeginSubmit, BeginProcess, BeginCancel, Start
  <2>2. batch' \in [Worker -> SUBSET Order] /\ Discovered'
    BY <1>2, <2>1 DEF Inv, TypeOK, Discovered, books
  <2>3. ASSUME BeginMarket(c) PROVE Inv'
    <3>1. PICK o \in Order, a \in Account, s \in Symbol, side \in Side, q \in Quantity :
            FreshId(o) /\ Start(c, "market", o, NewOrder(a, s, side, q, NoLimit))
      BY <2>3 DEF BeginMarket
    <3> DEFINE n == NewOrder(a, s, side, q, NoLimit)
    <3>2. n \in PaperOrder /\ n.status = "NEW" /\ n.filled = 0 /\ ~IsLimit(n)
      BY DEF NewOrder, PaperOrder, Status, IsLimit
    <3> HIDE DEF n
    <3> QED
      BY <1>2, <2>2, <3>1, <3>2, StartStep DEF n, Op, IsLimit
  <2>4. ASSUME BeginSubmit(c) PROVE Inv'
    <3>1. PICK o \in Order, a \in Account, s \in Symbol, side \in Side, q \in Quantity,
               l \in Limit :
            FreshId(o) /\ Start(c, "submit", o, NewOrder(a, s, side, q, l))
      BY <2>4 DEF BeginSubmit
    <3> DEFINE n == NewOrder(a, s, side, q, l)
    <3>2. /\ n \in PaperOrder /\ n.status = "NEW" /\ n.filled = 0 /\ IsLimit(n)
          /\ n.limit \in Limit
      BY RulesAssumption DEF NewOrder, PaperOrder, Status, IsLimit
    <3> HIDE DEF n
    <3> QED
      BY <1>2, <2>2, <3>1, <3>2, StartStep DEF n, Op
  <2>5. ASSUME NEW o \in Order, CanRead(o),
               Start(c, "process", o, orders[o]) \/ Start(c, "cancel", o, orders[o])
        PROVE  Inv'
    <3>1. orders[o] \in PaperOrder /\ orders[o] # NoOrder
      BY <1>2, <2>5, ReadRow DEF Inv, TypeOK, CanRead
    <3> QED
      BY <1>2, <2>2, <2>5, <3>1, StartStep DEF Op
  <2> QED
    BY <1>2, <2>3, <2>4, <2>5 DEF Request, BeginProcess, BeginCancel
<1>3. ASSUME Inv, NEW w \in Worker, Discover(w) PROVE Inv'
  <2>1. PICK found : /\ found \subseteq {o \in Order : Triggerable(o)}
                     /\ batch' = [batch EXCEPT ![w] = found]
    BY <1>3 DEF Discover, kSubset
  <2>2. batch' \in [Worker -> SUBSET Order] /\ Discovered'
    BY <1>3, <2>1 DEF Discover, Inv, TypeOK, Discovered, Triggerable, books
  <2> QED
    BY <1>3, <2>2, AsideStep DEF Discover, Inv, TypeOK
<1>4. ASSUME Inv, NEW w \in Worker, ProcessNext(w) PROVE Inv'
  <2>1. PICK o \in batch[w] : /\ ProcessOne(w, o)
                              /\ batch' = [batch EXCEPT ![w] = @ \ {o}]
    BY <1>4 DEF ProcessNext
  <2>2. batch' \in [Worker -> SUBSET Order] /\ Discovered'
    BY <1>4, <2>1 DEF ProcessOne, Start, Inv, TypeOK, Discovered, books
  <2>3. CASE CanRead(o)
    <3>1. o \in Order /\ orders[o] # NoOrder /\ orders[o] \in PaperOrder
      BY <1>4, <2>3, ReadRow DEF Inv, TypeOK, CanRead
    <3> QED
      BY <1>4, <2>1, <2>2, <2>3, <3>1, StartStep DEF Op, Session, ProcessOne
  <2>4. CASE ~CanRead(o)
    <3>1. UNCHANGED <<books, quote, tx>>
      BY <2>1, <2>4 DEF ProcessOne
    <3> QED
      BY <1>4, <2>2, <3>1, AsideStep DEF Inv, TypeOK
  <2> QED BY <2>3, <2>4
<1>5. ASSUME Inv, NEW w \in Worker, Restart(w) PROVE Inv'
  <2>1. batch' \in [Worker -> SUBSET Order] /\ Discovered'
    BY <1>5 DEF Restart, Inv, TypeOK, Discovered, books
  <2> QED
    BY <1>5, <2>1, EndStep DEF Restart, Session
<1>6. ASSUME Inv, NEW c \in Session, Abort(c) PROVE Inv'
  BY <1>6, EndStep DEF Abort, Inv, TypeOK, Discovered, books
<1>7. ASSUME Inv, NewQuote PROVE Inv'
  BY <1>7, AsideStep DEF NewQuote, Inv, TypeOK, Discovered, books
<1>8. ASSUME Inv, UNCHANGED vars PROVE Inv'
  BY <1>8, AsideStep DEF vars, Inv, TypeOK, Discovered, books
<1> QED
  BY <1>1, <1>2, <1>3, <1>4, <1>5, <1>6, <1>7, <1>8, LockStep, DecideStep, CommitStep
     DEF Next, Poll

LEMMA Invariance == Spec => []Inv
BY Inductive, PTL DEF Spec

-----------------------------------------------------------------------------
(* Theorems.                                                                *)

\* Every variable keeps its type: no account is overdrawn, no position is short
\* (ck_paper_accounts_cash_balance_non_negative and its likes never fire).
THEOREM TypeCorrect == Spec => []TypeOK
<1>1. Inv => TypeOK
  BY DEF Inv
<1> QED BY <1>1, Invariance, PTL

\* However many sessions and workers process, cancel or discover an order, it
\* has one execution, for its whole quantity, exactly when it is FILLED.
THEOREM OrdersFilledOnce == Spec => []EachOrderFilledOnce
<1>1. Inv => EachOrderFilledOnce
  BY DEF Inv
<1> QED BY <1>1, Invariance, PTL

\* A session decides on what the database holds at that moment, never on the
\* copy its routing read made (persistent_paper_trading_service.py 81-84).
THEOREM DecisionsAreCurrent == Spec => []DecidesOnLockedRows
<1>1. Inv => DecidesOnLockedRows
  BY ReadyFacts DEF DecidesOnLockedRows, Persisted
<1> QED BY <1>1, Invariance, PTL

\* A session that holds a row holds the account it trades for, and holds an order or
\* a position of that account only: nobody else is at these.
LEMMA HoldersNeverWait ==
  ASSUME Inv, NEW c \in Session, NEW d \in Session, WaitsFor(c, d)
  PROVE  tx[c].locked = 0
<1> DEFINE kind == LockPlan(tx[c].op)[tx[c].locked + 1]
<1>1. /\ c # d /\ InTransaction(c) /\ InTransaction(d)
      /\ tx[c].locked < Len(LockPlan(tx[c].op))
      /\ Holds(d, kind) /\ SameRow(c, d, kind)
  BY DEF WaitsFor, Holds
<1>2. /\ tx[c] \in Transaction /\ tx[d] \in Transaction
      /\ SessionInv(tx[c]) /\ SessionInv(tx[d]) /\ Apart(tx[c], tx[d])
      /\ tx[c] # Idle /\ tx[d] # Idle
  BY <1>1 DEF Inv, TypeOK, InTransaction
<1>3. /\ tx[c].op \in Op /\ tx[d].op \in Op
      /\ tx[c].locked \in 0 .. 3 /\ tx[d].locked \in 0 .. 3
  BY <1>2 DEF Transaction
<1>4. PICK i \in 1 .. tx[d].locked : LockPlan(tx[d].op)[i] = kind
  BY <1>1 DEF Holds
<1>5. tx[d].locked >= 1 /\ i <= Len(LockPlan(tx[d].op))
  BY <1>2, <1>3, <1>4, Plans DEF SessionInv, Counted
<1> SUFFICES ASSUME tx[c].locked >= 1 PROVE FALSE
  BY <1>3
<1>6. tx[c].order.account # tx[d].order.account
  BY <1>2, <1>5 DEF Apart
<1>7. kind \in {"order", "position"}
  BY <1>1, <1>3, Plans
<1>8. CASE kind = "position"
  BY <1>1, <1>6, <1>8 DEF SameRow
<1>9. CASE kind = "order"
  <2>1. tx[c].id = tx[d].id
    BY <1>1, <1>9 DEF SameRow
  <2>2. Persisted(tx[c]) /\ Persisted(tx[d])
    BY <1>1, <1>3, <1>4, <1>5, <1>9, Plans DEF Persisted
  <2>3. /\ tx[c].order.account = orders[tx[c].id].account
        /\ tx[d].order.account = orders[tx[d].id].account
    BY <1>2, <2>2 DEF SessionInv, Routed
  <2> QED BY <1>6, <2>1, <2>3
<1> QED BY <1>7, <1>8, <1>9

\* Whatever sessions do at once, the one that another waits for can go on.
THEOREM NobodyWaitsInCircles == Spec => []NoCircularWait
<1>1. ASSUME Inv, NEW c \in Session, NEW d \in Session, NEW e \in Session,
             WaitsFor(c, d)
      PROVE  ~WaitsFor(d, e)
  <2>1. PICK i \in 1 .. tx[d].locked : TRUE
    BY <1>1 DEF WaitsFor, Holds
  <2>2. tx[d] \in Transaction /\ tx[d].locked \in Int
    BY <1>1 DEF Inv, TypeOK, WaitsFor, Holds, InTransaction, Transaction
  <2>3. tx[d].locked # 0
    BY <2>1, <2>2
  <2> QED BY <1>1, <2>3, HoldersNeverWait
<1>2. Inv => NoCircularWait
  BY <1>1 DEF NoCircularWait
<1> QED BY <1>2, Invariance, PTL

\* The books change by commits only.
LEMMA OnlyCommitsWrite ==
  ASSUME [Next]_vars,
         \A c \in Session : ~CommitTrade(c) /\ ~CommitOrder(c)
  PROVE  UNCHANGED books
<1>1. ASSUME NEW c \in Session, Request(c) PROVE UNCHANGED books
  BY <1>1 DEF Request, BeginMarket, BeginSubmit, BeginProcess, BeginCancel, Start
<1>2. ASSUME NEW c \in Session, Poll(c) PROVE UNCHANGED books
  BY <1>2 DEF Poll, Discover, ProcessNext, ProcessOne, Restart, Start
<1>3. ASSUME NEW c \in Session, Lock(c) PROVE UNCHANGED books
  BY <1>3 DEF Lock, LockAccount, LockOrder, LockPosition
<1>4. ASSUME NEW c \in Session, Decide(c) PROVE UNCHANGED books
  BY <1>4 DEF Decide, Trade, Enter, Withdraw, Leave, Refuse
<1>5. ASSUME NEW c \in Session, CommitNothing(c) \/ Abort(c) PROVE UNCHANGED books
  BY <1>5 DEF CommitNothing, Abort
<1>6. ASSUME NewQuote \/ UNCHANGED vars PROVE UNCHANGED books
  BY <1>6 DEF NewQuote, vars
<1> QED
  BY <1>1, <1>2, <1>3, <1>4, <1>5, <1>6 DEF Next, Commit

\* Filled and cancelled orders stay as they are, whoever still works on them.
THEOREM FinalOrdersAreFinal == Spec => FinalOrdersStay
<1>1. ASSUME Inv, [Next]_vars, NEW o \in Order, orders[o] # NoOrder,
             ~Cancellable(orders[o])
      PROVE  orders'[o] = orders[o]
  <2>1. ASSUME NEW c \in Session, CommitTrade(c) PROVE orders'[o] = orders[o]
    <3>1. /\ tx[c].id # o
          /\ orders' = [orders EXCEPT ![tx[c].id] = StoredOrder(tx[c].order)]
      BY <1>1, <2>1, TradeFacts DEF Cancellable, CommitTrade
    <3> QED BY <1>1, <3>1 DEF Inv, TypeOK
  <2>2. ASSUME NEW c \in Session, CommitOrder(c) PROVE orders'[o] = orders[o]
    <3>1. /\ tx[c].id # o
          /\ orders' = [orders EXCEPT ![tx[c].id] = StoredOrder(tx[c].order)]
      BY <1>1, <2>2, OrderFacts DEF CommitOrder
    <3> QED BY <1>1, <3>1 DEF Inv, TypeOK
  <2>3. UNCHANGED books => orders'[o] = orders[o]
    BY DEF books
  <2> QED
    BY <1>1, <2>1, <2>2, <2>3, OnlyCommitsWrite
<1>2. Inv /\ [Next]_vars =>
        [\A o \in Order : (orders[o] # NoOrder /\ ~Cancellable(orders[o]))
                            => orders'[o] = orders[o]]_vars
  BY <1>1
<1> QED BY <1>2, Invariance, PTL DEF Spec, FinalOrdersStay

\* An order whose limit was stored as zero is never written again.
THEOREM UnreadableNeverTraded == Spec => UnreadableOrdersStay
<1>1. ASSUME Inv, [Next]_vars, NEW o \in Order, orders[o] # NoOrder,
             ~Readable(orders[o])
      PROVE  orders'[o] = orders[o]
  <2>1. ASSUME NEW c \in Session, CommitTrade(c) PROVE orders'[o] = orders[o]
    <3>1. /\ tx[c].id # o
          /\ orders' = [orders EXCEPT ![tx[c].id] = StoredOrder(tx[c].order)]
      BY <1>1, <2>1, TradeFacts DEF CommitTrade
    <3> QED BY <1>1, <3>1 DEF Inv, TypeOK
  <2>2. ASSUME NEW c \in Session, CommitOrder(c) PROVE orders'[o] = orders[o]
    <3>1. /\ tx[c].id # o
          /\ orders' = [orders EXCEPT ![tx[c].id] = StoredOrder(tx[c].order)]
      BY <1>1, <2>2, OrderFacts DEF CommitOrder
    <3> QED BY <1>1, <3>1 DEF Inv, TypeOK
  <2>3. UNCHANGED books => orders'[o] = orders[o]
    BY DEF books
  <2> QED
    BY <1>1, <2>1, <2>2, <2>3, OnlyCommitsWrite
<1>2. Inv /\ [Next]_vars =>
        [\A o \in Order : (orders[o] # NoOrder /\ ~Readable(orders[o]))
                            => orders'[o] = orders[o]]_vars
  BY <1>1
<1> QED BY <1>2, Invariance, PTL DEF Spec, UnreadableOrdersStay

\* The book's rules of an order are those of PaperTrading.
LEMMA SameRules ==
  ASSUME NEW b, NEW p, NEW f, NEW s
  PROVE  /\ Book!Covered(b, p, f, s) <=> Covered(b, p, f, s)
         /\ Book!Triggered(b, p) <=> Triggered(b, p)
         /\ Book!Cancellable(b) <=> Cancellable(b)
         /\ Book!Remaining(b) = Remaining(b)
         /\ Book!FundsAfter(b, p, f) = FundsAfter(b, p, f)
         /\ Book!SharesAfter(b, s) = SharesAfter(b, s)
         /\ Book!Filled(b) = Filled(b)
         /\ Book!Pending(b) = Pending(b) /\ Book!Cancelled(b) = Cancelled(b)
         /\ Book!StoredOrder(b) = StoredOrder(b) /\ Book!Stored(f) = Stored(f)
         /\ Book!Readable(b) <=> Readable(b)
BY DEF Book!Covered, Book!Triggered, Book!Cancellable, Book!Remaining, Book!FundsAfter,
       Book!SharesAfter, Book!Filled, Book!RecordFill, Book!Pending, Book!Cancelled,
       Covered, Triggered, Cancellable, Remaining, FundsAfter, SharesAfter, Filled,
       RecordFill, Pending, Cancelled, Book!StoredOrder, Book!IsLimit, Book!Stored,
       Book!Readable, StoredOrder, IsLimit, Stored, Readable

LEMMA SameNewOrder ==
  \A a, s, side, q, l : Book!NewOrder(a, s, side, q, l) = NewOrder(a, s, side, q, l)
BY DEF Book!NewOrder, NewOrder

\* The transactions are serializable: each commit is one atomic operation of
\* TradingBook on the books as they then are, every other step changes no book.
THEOREM Serializable == Spec => ImplementsBook
<1>1. Init => Book!Init
  BY DEF Init, Book!Init
<1>2. ASSUME Inv, NEW c \in Session, CommitTrade(c) PROVE Book!Next
  <2> DEFINE u == tx[c]  b == Base(u)
  <2>1. /\ u # Idle /\ u \in Transaction /\ b \in PaperOrder
        /\ u.order.account = b.account /\ u.order.symbol = b.symbol
    BY <1>2, TradeFacts
  <2>2. u.id \in Order
    BY <2>1 DEF Transaction
  <2>3. ASSUME NEW p \in Price, Settled(u, b, p) PROVE Book!Settle(u.id, b, p)
    <3>1. executions[u.id] \in Seq(Fill)
      BY <1>2, <2>2 DEF Inv, TypeOK
    <3>2. executions[u.id] \o StoredFills(u.fill)
            = Append(executions[u.id], [quantity |-> Remaining(b), price |-> Stored(p)])
      <4> DEFINE f == [quantity |-> Remaining(b), price |-> Stored(p)]
      <4>1. StoredFills(u.fill) = <<f>>
        BY <2>3, OneRow DEF Settled
      <4>2. f \in Fill
        <5>1. Remaining(b) \in Nat /\ Stored(p) \in Nat
          BY <1>2, TradeFacts, FilledWhole, Rounding, RulesAssumption
        <5> HIDE DEF Stored
        <5> QED BY <5>1 DEF Fill
      <4> HIDE DEF f
      <4>3. executions[u.id] \o <<f>> = Append(executions[u.id], f)
        BY <3>1, <4>2
      <4> QED BY <4>1, <4>3 DEF f
    <3>3. /\ orders' = [orders EXCEPT ![u.id] = StoredOrder(Filled(b))]
          /\ cash' = [cash EXCEPT ![b.account] =
                                Stored(FundsAfter(b, p, cash[b.account]))]
          /\ held' = [held EXCEPT ![b.account][b.symbol]
                                = SharesAfter(b, held[b.account][b.symbol])]
          /\ executions' = [executions EXCEPT
                                ![u.id] = executions[u.id] \o StoredFills(u.fill)]
      BY <1>2, <2>1, <2>3 DEF CommitTrade, Settled
    <3> QED
      BY <2>3, <3>2, <3>3, SameRules, ZenonT(60) DEF Book!Settle, Settled
  <2>4. CASE orders[u.id] = NoOrder
    <3>1. /\ b = NewOrder(b.account, b.symbol, b.side, b.quantity, NoLimit)
          /\ \E p \in Price : Settled(u, b, p)
      BY <1>2, <2>4, TradeFacts
    <3>2. /\ b.account \in Account /\ b.symbol \in Symbol /\ b.side \in Side
          /\ b.quantity \in Quantity
      BY <2>1 DEF PaperOrder
    <3>3. PICK p \in Price : Book!Settle(u.id, b, p)
      BY <2>3, <3>1
    <3> QED
      BY <2>2, <2>4, <3>1, <3>2, <3>3, SameNewOrder
         DEF Book!Next, Book!MarketOrder, Book!Side, Side
  <2>5. CASE orders[u.id] # NoOrder
    <3>1. /\ b = orders[u.id] /\ b.status = "PENDING" /\ Readable(b)
          /\ \E p \in Price : Triggered(b, p) /\ Settled(u, b, p)
      BY <1>2, <2>5, TradeFacts
    <3> QED
      BY <2>2, <2>3, <2>5, <3>1, SameRules DEF Book!Next, Book!FillLimit
  <2> QED BY <2>4, <2>5
<1>3. ASSUME Inv, NEW c \in Session, CommitOrder(c) PROVE Book!Next
  <2> DEFINE u == tx[c]  b == Base(u)
  <2>1. /\ u \in Transaction /\ b \in PaperOrder
        /\ \/ /\ orders[u.id] = NoOrder /\ u.order = Pending(b) /\ b.limit \in Limit
              /\ b = NewOrder(b.account, b.symbol, b.side, b.quantity, b.limit)
           \/ /\ orders[u.id] # NoOrder /\ b = orders[u.id] /\ Readable(b)
              /\ Cancellable(b) /\ u.order = Cancelled(b)
    BY <1>3, OrderFacts
  <2>2. /\ u.id \in Order /\ b.account \in Account /\ b.symbol \in Symbol
        /\ b.side \in Side /\ b.quantity \in Quantity
    BY <2>1 DEF Transaction, PaperOrder
  <2>3. /\ orders' = [orders EXCEPT ![u.id] = StoredOrder(u.order)]
        /\ UNCHANGED <<cash, held, executions>>
    BY <1>3 DEF CommitOrder
  <2>4. CASE orders[u.id] = NoOrder
    <3>1. b.limit \in Limit
      BY <2>1, <2>4
    <3>2. /\ StoredOrder(u.order) = Book!StoredOrder(Book!Pending(b))
          /\ b = Book!NewOrder(b.account, b.symbol, b.side, b.quantity, b.limit)
      BY <2>1, <2>4, SameRules, SameNewOrder
    <3>3. orders' = [orders EXCEPT ![u.id] = Book!StoredOrder(Book!Pending(
                       Book!NewOrder(b.account, b.symbol, b.side, b.quantity, b.limit)))]
      BY <2>3, <3>2
    <3>4. \E a \in Account, s \in Symbol, side \in Side, q \in Quantity, l \in Limit :
            orders' = [orders EXCEPT ![u.id] =
                         Book!StoredOrder(Book!Pending(Book!NewOrder(a, s, side, q, l)))]
      BY <2>2, <3>1, <3>3
    <3>5. Book!SubmitLimit(u.id)
      BY <2>3, <2>4, <3>4 DEF Book!SubmitLimit, Book!Side, Side
    <3> QED BY <2>2, <3>5 DEF Book!Next
  <2>5. CASE orders[u.id] # NoOrder
    BY <2>1, <2>2, <2>3, <2>5, SameRules DEF Book!Next, Book!Cancel
  <2> QED BY <2>4, <2>5
<1>4. Inv /\ [Next]_vars => [Book!Next]_(Book!books)
  BY <1>2, <1>3, OnlyCommitsWrite DEF books, Book!books
<1> QED
  BY <1>1, <1>4, Invariance, PTL DEF Spec, ImplementsBook, Book!Spec

-----------------------------------------------------------------------------
(* Sums over a finite set.                                                  *)

\* A non-empty set of numbers has a least one.
LEMMA LeastNumber ==
  ASSUME NEW T \in SUBSET Nat, T # {}
  PROVE  \E n \in T : \A m \in T : n <= m
<1>1. PICK n \in T : \A m \in T : ~(<<m, n>> \in OpToRel(<, Nat))
  BY NatLessThanWellFounded, WFMin
<1>2. \A m \in T : ~(m < n)
  BY <1>1 DEF OpToRel
<1> QED BY <1>2

\* Among some subsets of a finite set is one that is none of them without one of
\* its elements.
LEMMA SmallestSet ==
  ASSUME NEW S, IsFiniteSet(S), NEW B \in SUBSET (SUBSET S), B # {}
  PROVE  \E s \in B : \A x \in s : s \ {x} \notin B
<1> DEFINE T == {Cardinality(s) : s \in B}
<1>1. \A s \in SUBSET S : IsFiniteSet(s) /\ Cardinality(s) \in Nat
  BY FS_Subset, FS_CardinalityType
<1>2. PICK s \in B : \A u \in B : Cardinality(s) <= Cardinality(u)
  <2>1. T \in SUBSET Nat /\ T # {}
    BY <1>1
  <2>2. PICK n \in T : \A m \in T : n <= m
    BY <2>1, LeastNumber
  <2> QED BY <2>2
<1>3. ASSUME NEW x \in s PROVE s \ {x} \notin B
  <2>1. Cardinality(s \ {x}) = Cardinality(s) - 1
    BY <1>1, FS_RemoveElement
  <2> QED BY <1>1, <1>2, <2>1
<1> QED BY <1>3

SumOver(f, S) == MapThenSumSet(LAMBDA x : f[x], S)

\* What it has for each subset is the sum of f on the subset: 0, or the value of one
\* element and the sum on the rest.
Sums(it, f, S) ==
  it = [s \in S |-> IF s = {} THEN 0
                    ELSE f[CHOOSE x \in s : TRUE] + it[s \ {CHOOSE x \in s : TRUE}]]

LEMMA SumsExist ==
  ASSUME NEW S, IsFiniteSet(S), NEW f
  PROVE  \E it : Sums(it, f, SUBSET S)
<1> DEFINE Layer(n) == {s \in SUBSET S : Cardinality(s) <= n}
           Lacking == {n \in Nat : ~\E it : Sums(it, f, Layer(n))}
           One(s) == CHOOSE x \in s : TRUE
<1>1. \A s \in SUBSET S : IsFiniteSet(s) /\ Cardinality(s) \in Nat
  BY FS_Subset, FS_CardinalityType
<1>2. \A s \in SUBSET S : s # {} =>
        /\ One(s) \in s /\ s \ {One(s)} \in SUBSET S
        /\ Cardinality(s \ {One(s)}) = Cardinality(s) - 1
  BY <1>1, FS_RemoveElement
<1>3. ASSUME NEW n \in Nat, NEW it, Sums(it, f, Layer(n))
      PROVE  \E up : Sums(up, f, Layer(n + 1))
  <2> DEFINE up == [s \in Layer(n + 1) |->
                      IF s = {} THEN 0 ELSE f[One(s)] + it[s \ {One(s)}]]
  <2>1. \A s \in Layer(n) : s \in Layer(n + 1)
    BY <1>1
  <2>2. \A s \in Layer(n) : it[s] = IF s = {} THEN 0 ELSE f[One(s)] + it[s \ {One(s)}]
    BY <1>3 DEF Sums
  <2>3. \A s \in Layer(n) : up[s] = it[s]
    BY <2>1, <2>2
  <2>4. \A s \in Layer(n + 1) : s # {} => s \ {One(s)} \in Layer(n)
    BY <1>1, <1>2
  <2>5. up = [s \in Layer(n + 1) |-> IF s = {} THEN 0 ELSE f[One(s)] + up[s \ {One(s)}]]
    <3>1. \A s \in Layer(n + 1) : s # {} => it[s \ {One(s)}] = up[s \ {One(s)}]
      BY <2>3, <2>4
    <3> HIDE DEF Layer, One
    <3> QED BY <3>1
  <2>6. Sums(up, f, Layer(n + 1))
    BY <2>5 DEF Sums
  <2> QED BY <2>6
<1>4. \E it : Sums(it, f, Layer(0))
  <2> DEFINE it == [s \in Layer(0) |-> 0]
  <2>1. \A s \in Layer(0) : s = {}
    BY <1>1, FS_EmptySet
  <2>2. it = [s \in Layer(0) |-> IF s = {} THEN 0 ELSE f[One(s)] + it[s \ {One(s)}]]
    BY <2>1
  <2>3. Sums(it, f, Layer(0))
    BY <2>2 DEF Sums
  <2> QED BY <2>3
<1>5. Lacking = {}
  <2> SUFFICES ASSUME Lacking # {} PROVE FALSE
    OBVIOUS
  <2>1. PICK n \in Lacking : \A m \in Lacking : n <= m
    BY LeastNumber
  <2>2. n # 0
    BY <1>4, <2>1
  <2>3. n \in Nat /\ n - 1 \in Nat /\ (n - 1) + 1 = n
    BY <2>1, <2>2
  <2>4. PICK it : Sums(it, f, Layer(n - 1))
    <3>1. n - 1 \notin Lacking
      <4> HIDE DEF Lacking
      <4>1. n \in Nat /\ ~(n <= n - 1)
        BY <2>3
      <4> QED BY <2>1, <4>1
    <3> HIDE DEF Layer
    <3> QED BY <2>3, <3>1
  <2>5. \E up : Sums(up, f, Layer((n - 1) + 1))
    BY <1>3, <2>3, <2>4
  <2> QED BY <2>1, <2>3, <2>5
<1>6. Cardinality(S) \in Nat /\ SUBSET S = Layer(Cardinality(S))
  BY FS_Subset, FS_CardinalityType
<1> QED BY <1>5, <1>6

\* The sum is that of some such function.
LEMMA SumUnfolded ==
  ASSUME NEW S, IsFiniteSet(S), NEW f
  PROVE  \E it : Sums(it, f, SUBSET S) /\ SumOver(f, S) = it[S]
<1> DEFINE it == CHOOSE it : Sums(it, f, SUBSET S)
<1>1. Sums(it, f, SUBSET S)
  BY SumsExist
<1>2. SumOver(f, S) = it[S]
  BY DEF SumOver, MapThenSumSet, MapThenFoldSet, Sums
<1> QED BY <1>1, <1>2

\* Sums of functions that differ at one point differ by what they differ there, and
\* are integers.
LEMMA SumChanged ==
  ASSUME NEW S, IsFiniteSet(S), NEW f \in [S -> Int], NEW g \in [S -> Int], NEW z \in S,
         \A x \in S : x # z => g[x] = f[x]
  PROVE  /\ SumOver(f, S) \in Int
         /\ SumOver(g, S) = SumOver(f, S) + (g[z] - f[z])
<1> DEFINE One(s) == CHOOSE x \in s : TRUE
<1>1. PICK F : Sums(F, f, SUBSET S) /\ SumOver(f, S) = F[S]
  BY SumUnfolded
<1>2. PICK G : Sums(G, g, SUBSET S) /\ SumOver(g, S) = G[S]
  BY SumUnfolded
<1>3. \A s \in SUBSET S :
        /\ F[s] = IF s = {} THEN 0 ELSE f[One(s)] + F[s \ {One(s)}]
        /\ G[s] = IF s = {} THEN 0 ELSE g[One(s)] + G[s \ {One(s)}]
  BY <1>1, <1>2 DEF Sums
<1> DEFINE Right(s) == F[s] \in Int /\ G[s] = F[s] + (IF z \in s THEN g[z] - f[z] ELSE 0)
           Wrong == {s \in SUBSET S : ~Right(s)}
<1>4. Wrong = {}
  <2> SUFFICES ASSUME Wrong # {} PROVE FALSE
    OBVIOUS
  <2>1. PICK s \in Wrong : \A x \in s : s \ {x} \notin Wrong
    BY SmallestSet
  <2>2. s # {}
    BY <1>3, <2>1
  <2>3. One(s) \in s /\ s \ {One(s)} \in SUBSET S
    BY <2>1, <2>2
  <2>4. Right(s \ {One(s)})
    BY <2>1, <2>3
  <2>5. f[One(s)] \in Int /\ g[One(s)] \in Int /\ f[z] \in Int /\ g[z] \in Int
    BY <2>1, <2>3
  <2>6. /\ F[s] = f[One(s)] + F[s \ {One(s)}] /\ G[s] = g[One(s)] + G[s \ {One(s)}]
    BY <1>3, <2>1, <2>2
  <2>7. CASE One(s) = z
    <3>1. z \in s /\ z \notin s \ {One(s)}
      BY <2>3, <2>7
    <3>2. F[s \ {One(s)}] \in Int /\ G[s \ {One(s)}] = F[s \ {One(s)}]
      BY <2>4, <2>5, <3>1
    <3>3. F[s] \in Int /\ G[s] = F[s] + (g[z] - f[z])
      <4> HIDE DEF One
      <4> QED BY <2>5, <2>6, <2>7, <3>2
    <3> QED BY <2>1, <3>1, <3>3
  <2>8. CASE One(s) # z
    <3>1. g[One(s)] = f[One(s)] /\ (z \in s <=> z \in s \ {One(s)})
      BY <2>1, <2>3, <2>8
    <3> QED BY <2>1, <2>4, <2>5, <2>6, <3>1
  <2> QED BY <2>7, <2>8
<1>5. Right(S)
  BY <1>4
<1> QED BY <1>1, <1>2, <1>5

\* A sum of zeros is 0.
LEMMA SumZero ==
  ASSUME NEW S, IsFiniteSet(S), NEW f, \A x \in S : f[x] = 0
  PROVE  SumOver(f, S) = 0
<1> DEFINE One(s) == CHOOSE x \in s : TRUE
<1>1. PICK F : Sums(F, f, SUBSET S) /\ SumOver(f, S) = F[S]
  BY SumUnfolded
<1>2. \A s \in SUBSET S : F[s] = IF s = {} THEN 0 ELSE f[One(s)] + F[s \ {One(s)}]
  BY <1>1 DEF Sums
<1> DEFINE Wrong == {s \in SUBSET S : F[s] # 0}
<1>3. Wrong = {}
  <2> SUFFICES ASSUME Wrong # {} PROVE FALSE
    OBVIOUS
  <2>1. PICK s \in Wrong : \A x \in s : s \ {x} \notin Wrong
    BY SmallestSet
  <2>2. One(s) \in s
    BY <1>2, <2>1
  <2>3. F[s \ {One(s)}] = 0 /\ F[s] = f[One(s)] + F[s \ {One(s)}] /\ f[One(s)] = 0
    BY <1>2, <2>1, <2>2
  <2> QED BY <2>1, <2>3
<1> QED BY <1>1, <1>3

-----------------------------------------------------------------------------
(* The books balance.                                                       *)

\* What an executed order paid and took, by its one execution.
Paid(o)  == Sign(o) * (executions[o][1].quantity * executions[o][1].price)
Taken(o) == Sign(o) * executions[o][1].quantity

Spendings(a) ==
  [o \in Order |-> IF Executed(o) /\ orders[o].account = a THEN Paid(o) ELSE 0]
Holdings(a, s) ==
  [o \in Order |-> IF Executed(o) /\ orders[o].account = a /\ orders[o].symbol = s
                   THEN Taken(o) ELSE 0]

Rounded(a) ==
  [o \in Order |-> IF Executed(o) /\ orders[o].account = a
                   THEN orders[o].quantity + 1 ELSE 0]

\* What cash and spendings differ from the initial cash by, twice, and what it may be.
Off(money, spent, a) == 2 * (money + spent - InitialCash[a])
Within(n) == -(Digit * n) .. Digit * n

Balanced ==
  /\ \A a \in Account :
       Off(cash[a], SumOver(Spendings(a), Order), a) \in Within(SumOver(Rounded(a), Order))
  /\ \A a \in Account, s \in Symbol : held[a][s] = SumOver(Holdings(a, s), Order)

LEMMA SumOfOne ==
  ASSUME NEW f, f[1] \in Int
  PROVE  SumOver(f, {1}) = f[1]
<1>1. PICK F : Sums(F, f, SUBSET {1}) /\ SumOver(f, {1}) = F[{1}]
  BY FS_Singleton, SumUnfolded
<1>2. F[{1}] = f[1] + F[{}] /\ F[{}] = 0
  <2>1. (CHOOSE x \in {1} : TRUE) = 1 /\ {1} \ {1} = {}
    OBVIOUS
  <2> QED BY <1>1, <2>1 DEF Sums
<1> QED BY <1>1, <1>2

\* The library sums an operator; the same sum, of a function.
LEMMA SumsOfFills ==
  ASSUME NEW e, NEW S
  PROVE  /\ MapThenSumSet(LAMBDA i : e[i].quantity, S)
              = SumOver([i \in S |-> e[i].quantity], S)
         /\ MapThenSumSet(LAMBDA i : e[i].quantity * e[i].price, S)
              = SumOver([i \in S |-> e[i].quantity * e[i].price], S)
<1>1. MapThenSumSet(LAMBDA i : e[i].quantity, S) = SumOver([i \in S |-> e[i].quantity], S)
  BY DEF SumOver, MapThenSumSet, MapThenFoldSet
<1>2. MapThenSumSet(LAMBDA i : e[i].quantity * e[i].price, S)
        = SumOver([i \in S |-> e[i].quantity * e[i].price], S)
  BY DEF SumOver, MapThenSumSet, MapThenFoldSet
<1> QED BY <1>1, <1>2

\* The executions of an order are one or none.
LEMMA OneExecution ==
  ASSUME Inv, NEW o \in Order, Executed(o)
  PROVE  /\ orders[o] \in PaperOrderModel /\ Len(executions[o]) = 1
         /\ executions[o] \in Seq(Fill) /\ executions[o][1] \in Fill
         /\ Spent(o) = Paid(o) /\ Bought(o) = Taken(o)
         /\ Paid(o) \in Int /\ Taken(o) \in Int
<1>1. orders[o] \in PaperOrderModel /\ Len(executions[o]) = 1 /\ executions[o] \in Seq(Fill)
  BY DEF Inv, EachOrderFilledOnce, Executed, TypeOK
<1>2. DOMAIN executions[o] = {1} /\ executions[o][1] \in Fill
  BY <1>1
<1>3. executions[o][1].quantity \in Nat /\ executions[o][1].price \in Nat
  BY <1>2 DEF Fill
<1>4. executions[o][1].quantity * executions[o][1].price \in Nat
  BY <1>3
<1>5. Sign(o) \in Int
  BY DEF Sign
<1> DEFINE q == [i \in {1} |-> executions[o][i].quantity]
           m == [i \in {1} |-> executions[o][i].quantity * executions[o][i].price]
<1>6. MapThenSumSet(LAMBDA i : executions[o][i].quantity, {1}) = SumOver(q, {1})
  BY SumsOfFills
<1>7. MapThenSumSet(LAMBDA i : executions[o][i].quantity * executions[o][i].price, {1})
        = SumOver(m, {1})
  BY SumsOfFills
<1>8. SumOver(q, {1}) = q[1] /\ SumOver(m, {1}) = m[1]
  BY <1>3, <1>4, SumOfOne
<1>9. Bought(o) = Taken(o)
  BY <1>2, <1>6, <1>8 DEF Bought, Taken
<1>10. Spent(o) = Paid(o)
  BY <1>2, <1>7, <1>8 DEF Spent, Paid
<1>11. Paid(o) \in Int /\ Taken(o) \in Int
  BY <1>3, <1>4, <1>5 DEF Paid, Taken
<1> QED BY <1>1, <1>2, <1>9, <1>10, <1>11

\* The totals are the sums of what the executed orders paid and took.
LEMMA TotalsSummed ==
  ASSUME Inv, NEW a, NEW s
  PROVE  /\ TotalSpent(a) = SumOver(Spendings(a), Order)
         /\ TotalBought(a, s) = SumOver(Holdings(a, s), Order)
         /\ Roundings(a) = SumOver(Rounded(a), Order)
<1>1. \A o \in Order : Executed(o) => Spent(o) = Paid(o) /\ Bought(o) = Taken(o)
  BY OneExecution
<1>2. TotalSpent(a)
        = SumOver([o \in Order |-> IF Executed(o) /\ orders[o].account = a
                                   THEN Spent(o) ELSE 0], Order)
  BY DEF TotalSpent, SumOver, MapThenSumSet, MapThenFoldSet
<1>3. TotalBought(a, s)
        = SumOver([o \in Order |->
             IF Executed(o) /\ orders[o].account = a /\ orders[o].symbol = s
             THEN Bought(o) ELSE 0], Order)
  BY DEF TotalBought, SumOver, MapThenSumSet, MapThenFoldSet
<1>4. /\ [o \in Order |-> IF Executed(o) /\ orders[o].account = a THEN Spent(o) ELSE 0]
           = Spendings(a)
      /\ [o \in Order |-> IF Executed(o) /\ orders[o].account = a /\ orders[o].symbol = s
                          THEN Bought(o) ELSE 0]
           = Holdings(a, s)
  BY <1>1 DEF Spendings, Holdings
<1>5. Roundings(a) = SumOver(Rounded(a), Order)
  BY DEF Roundings, Rounded, SumOver, MapThenSumSet, MapThenFoldSet
<1> QED BY <1>2, <1>3, <1>4, <1>5

LEMMA BooksAreSums == Inv => (BooksBalance <=> Balanced)
BY TotalsSummed DEF BooksBalance, Balanced, Off, Within

\* The sums of the next state are the sums of what its orders paid and took.
LEMMA NextSums ==
  ASSUME NEW a, NEW s
  PROVE  /\ SumOver(Spendings(a), Order)' = SumOver(Spendings(a)', Order)
         /\ SumOver(Holdings(a, s), Order)' = SumOver(Holdings(a, s)', Order)
         /\ SumOver(Rounded(a), Order)' = SumOver(Rounded(a)', Order)
BY DEF SumOver, MapThenSumSet, MapThenFoldSet

LEMMA OrdersFinite == IsFiniteSet(Order)
BY TradingAssumption

LEMMA SumTypes ==
  ASSUME Inv, NEW a, NEW s
  PROVE  /\ Spendings(a) \in [Order -> Int] /\ Holdings(a, s) \in [Order -> Int]
         /\ Rounded(a) \in [Order -> Int]
<1>1. ASSUME NEW o \in Order, Executed(o) PROVE orders[o].quantity + 1 \in Int
  <2>1. orders[o].quantity \in Quantity
    BY <1>1, OneExecution DEF PaperOrderModel
  <2>2. orders[o].quantity \in Nat
    BY <2>1, RulesAssumption
  <2> QED BY <2>2
<1>2. Rounded(a) \in [Order -> Int]
  BY <1>1 DEF Rounded
<1>3. Spendings(a) \in [Order -> Int] /\ Holdings(a, s) \in [Order -> Int]
  BY OneExecution DEF Spendings, Holdings
<1> QED BY <1>2, <1>3

LEMMA BalanceInitial == Init => Balanced
<1> SUFFICES ASSUME Init PROVE Balanced
  OBVIOUS
<1>1. \A o \in Order : ~Executed(o)
  BY DEF Init, Executed
<1>2. \A a : SumOver(Spendings(a), Order) = 0
  BY <1>1, SumZero, TradingAssumption DEF Spendings
<1>3. \A a, s : SumOver(Holdings(a, s), Order) = 0
  BY <1>1, SumZero, TradingAssumption DEF Holdings
<1>4. \A a : SumOver(Rounded(a), Order) = 0
  BY <1>1, SumZero, TradingAssumption DEF Rounded
<1>5. ASSUME NEW a \in Account PROVE Off(cash[a], 0, a) \in Within(0)
  <2>1. cash[a] = InitialCash[a] /\ InitialCash[a] \in Nat
    BY TradingAssumption DEF Init
  <2>2. Off(cash[a], 0, a) = 0
    BY <2>1 DEF Off
  <2> QED BY <2>2, RulesAssumption DEF Within
<1> QED
  BY <1>2, <1>3, <1>4, <1>5 DEF Init, Balanced

\* Orders that are not executed may change: the sums stay.
LEMMA BalanceKept ==
  ASSUME Balanced, UNCHANGED <<cash, held, executions>>,
         \A o \in Order : Executed(o) => orders'[o] = orders[o]
  PROVE  Balanced'
<1>1. \A a : Spendings(a)' = Spendings(a)
  BY DEF Spendings, Executed, Paid, Sign
<1>2. \A a, s : Holdings(a, s)' = Holdings(a, s)
  BY DEF Holdings, Executed, Taken, Sign
<1>3. \A a : Rounded(a)' = Rounded(a)
  BY DEF Rounded, Executed
<1> QED
  BY <1>1, <1>2, <1>3, NextSums DEF Balanced, Off, Within

\* Shares whose price is rounded by half a digit at most.
LEMMA RoundedShares ==
  ASSUME NEW n \in Nat, NEW p \in Nat
  PROVE  2 * (n * (Stored(p) - p)) \in Within(n)
<1> DEFINE e == Stored(p) - p
<1>1. e \in Int /\ -Digit <= 2 * e /\ 2 * e <= Digit /\ Digit \in Nat
  BY Rounding, RulesAssumption
<1> HIDE DEF e
<1>2. n * (Digit - 2 * e) >= 0 /\ n * (Digit + 2 * e) >= 0
  BY <1>1
<1>3. 2 * (n * e) \in -(Digit * n) .. Digit * n
  BY <1>1, <1>2
<1> QED BY <1>3 DEF e, Within

\* A trade of n shares moves cash by what they cost, up to its roundings.
LEMMA TradeRounded ==
  ASSUME NEW n \in Nat, NEW p \in Nat, NEW money \in Nat, NEW spent \in Int,
         NEW r \in Int, NEW a \in Account, Off(money, spent, a) \in Within(r)
  PROVE  /\ money - p * n \in Nat =>
              Off(Stored(money - p * n), spent + n * Stored(p), a) \in Within(r + n + 1)
         /\ Off(Stored(money + p * n), spent - n * Stored(p), a) \in Within(r + n + 1)
<1> DEFINE m == n * p  k == n * Stored(p)
<1>1. /\ m \in Nat /\ k \in Nat /\ p * n = m /\ n * (Stored(p) - p) = k - m
      /\ Digit \in Nat /\ InitialCash[a] \in Nat
  <2>1. Stored(p) \in Nat
    BY Rounding
  <2> QED BY <2>1, RulesAssumption, TradingAssumption
<1>2. 2 * (k - m) \in -(Digit * n) .. Digit * n
  BY <1>1, RoundedShares DEF Within
<1>3. 2 * (money + spent - InitialCash[a]) \in -(Digit * r) .. Digit * r
  BY DEF Off, Within
<1>4. Digit * (r + n + 1) = Digit * r + Digit * n + Digit
      /\ Digit * r \in Int /\ Digit * n \in Int
  BY <1>1
<1>5. ASSUME money - m \in Nat
      PROVE  2 * (Stored(money - m) + (spent + k) - InitialCash[a])
               \in -(Digit * (r + n + 1)) .. Digit * (r + n + 1)
  <2>1. /\ Stored(money - m) \in Nat
        /\ 2 * Stored(money - m) - 2 * (money - m) \in -Digit .. Digit
    BY <1>5, Rounding
  <2> HIDE DEF m, k
  <2> QED BY <1>1, <1>2, <1>3, <1>4, <2>1
<1>6. 2 * (Stored(money + m) + (spent - k) - InitialCash[a])
        \in -(Digit * (r + n + 1)) .. Digit * (r + n + 1)
  <2>1. /\ Stored(money + m) \in Nat
        /\ 2 * Stored(money + m) - 2 * (money + m) \in -Digit .. Digit
    <3>1. money + m \in Nat
      BY <1>1
    <3> QED BY <3>1, Rounding
  <2> HIDE DEF m, k
  <2> QED BY <1>1, <1>2, <1>3, <1>4, <2>1
<1> QED BY <1>1, <1>5, <1>6 DEF Off, Within

\* A trade moves account and position by what its order paid and took.
LEMMA BalanceTraded ==
  ASSUME Inv, Balanced, NEW c \in Session, CommitTrade(c)
  PROVE  Balanced'
<1> DEFINE u == tx[c]  b == Base(u)
<1>1. /\ u # Idle /\ u \in Transaction /\ b \in PaperOrder /\ b.filled = 0
      /\ u.order.account = b.account /\ u.order.symbol = b.symbol
      /\ orders[u.id] = NoOrder \/ (b = orders[u.id] /\ b.status = "PENDING")
  BY TradeFacts
<1>2. PICK p \in Price : Settled(u, b, p)
  BY TradeFacts
<1>3. PICK o \in Order : o = u.id /\ b.account \in Account /\ b.symbol \in Symbol
  BY <1>1 DEF Transaction, PaperOrder
<1> DEFINE n == Remaining(b)
           paid == IF b.side = "BUY" THEN n * Stored(p) ELSE - (n * Stored(p))
           taken == IF b.side = "BUY" THEN n ELSE - n
<1>4. /\ n \in Nat /\ p \in Nat /\ p * n \in Nat
      /\ Stored(p) \in Nat /\ n * Stored(p) \in Nat /\ n = b.quantity
  <2>1. n \in Nat /\ p \in Nat /\ Stored(p) \in Nat /\ n = b.quantity
    BY <1>1, FilledWhole, Rounding, RulesAssumption
  <2> HIDE DEF n, Stored
  <2> QED BY <2>1
<1>5. executions[o] = <<>>
  BY <1>1, <1>3 DEF Inv, EachOrderFilledOnce
<1>6. /\ executions'[o] = <<[quantity |-> n, price |-> Stored(p)]>>
      /\ orders'[o] = StoredOrder(Filled(b))
      /\ \A i \in Order \ {o} :
           executions'[i] = executions[i] /\ orders'[i] = orders[i]
  <2> DEFINE e == [quantity |-> n, price |-> Stored(p)]
  <2>1. StoredFills(u.fill) = <<e>> /\ u.order = Filled(b)
    BY <1>2, OneRow DEF Settled
  <2>2. <<>> \o StoredFills(u.fill) = <<e>>
    BY <2>1
  <2> QED
    BY <1>3, <1>5, <2>1, <2>2 DEF CommitTrade, Inv, TypeOK
<1>7. /\ orders'[o].account = b.account /\ orders'[o].symbol = b.symbol
      /\ orders'[o].side = b.side /\ orders'[o].quantity = n
  <2>1. /\ Filled(b) \in PaperOrder
        /\ Filled(b).account = b.account /\ Filled(b).symbol = b.symbol
        /\ Filled(b).side = b.side /\ Filled(b).quantity = b.quantity
    BY <1>1, FilledWhole
  <2> QED BY <1>4, <1>6, <2>1, Row
<1>8. Executed(o)' /\ ~Executed(o)
  BY <1>5, <1>6 DEF Executed
<1>9. Paid(o)' = paid /\ Taken(o)' = taken
  <2>1. Sign(o)' = IF b.side = "BUY" THEN 1 ELSE -1
    BY <1>7 DEF Sign
  <2> HIDE DEF n, Stored
  <2> QED
    BY <1>4, <1>6, <2>1 DEF Paid, Taken
<1>10. paid \in Int /\ taken \in Int
  BY <1>4
<1>11. \A i \in Order \ {o} :
         /\ Executed(i)' = Executed(i) /\ Paid(i)' = Paid(i) /\ Taken(i)' = Taken(i)
         /\ orders'[i] = orders[i]
  BY <1>6 DEF Executed, Paid, Taken, Sign
<1>12. ASSUME NEW a \in Account
       PROVE  Off(cash'[a], SumOver(Spendings(a)', Order), a)
                \in Within(SumOver(Rounded(a)', Order))
  <2> DEFINE f == Spendings(a)  g == Spendings(a)'
             r == Rounded(a)    q == Rounded(a)'
             more == IF b.account = a THEN paid ELSE 0
             times == IF b.account = a THEN n + 1 ELSE 0
  <2>1. f \in [Order -> Int] /\ f[o] = 0 /\ r \in [Order -> Int] /\ r[o] = 0
    <3>1. f \in [Order -> Int] /\ r \in [Order -> Int]
      BY SumTypes
    <3>2. f[o] = 0 /\ r[o] = 0
      BY <1>3, <1>8 DEF Spendings, Rounded
    <3> QED BY <3>1, <3>2
  <2>2. \A i \in Order : g[i] = IF i = o THEN more ELSE f[i]
    BY <1>7, <1>8, <1>9, <1>11 DEF Spendings
  <2>3. g \in [Order -> Int] /\ more \in Int
    BY <1>10, <2>1, <2>2 DEF Spendings
  <2>4. /\ SumOver(f, Order) \in Int
        /\ SumOver(g, Order) = SumOver(f, Order) + more
    <3> HIDE DEF f, g, more
    <3>1. g[o] = more /\ \A i \in Order : i # o => g[i] = f[i]
      BY <2>2
    <3>2. /\ SumOver(f, Order) \in Int
          /\ SumOver(g, Order) = SumOver(f, Order) + (g[o] - f[o])
      BY <2>1, <2>3, <3>1, SumChanged, OrdersFinite
    <3> QED BY <2>1, <2>3, <3>1, <3>2
  <2>5. \A i \in Order : q[i] = IF i = o THEN times ELSE r[i]
    BY <1>7, <1>8, <1>11 DEF Rounded
  <2>6. q \in [Order -> Int] /\ times \in Int
    <3>1. times \in Int
      BY <1>4
    <3> HIDE DEF times
    <3> QED BY <2>1, <2>5, <3>1 DEF Rounded
  <2>7. /\ SumOver(r, Order) \in Int
        /\ SumOver(q, Order) = SumOver(r, Order) + times
    <3> HIDE DEF r, q, times
    <3>1. q[o] = times /\ \A i \in Order : i # o => q[i] = r[i]
      BY <2>5
    <3>2. /\ SumOver(r, Order) \in Int
          /\ SumOver(q, Order) = SumOver(r, Order) + (q[o] - r[o])
      BY <2>1, <2>6, <3>1, SumChanged, OrdersFinite
    <3> QED BY <2>1, <2>6, <3>1, <3>2
  <2>8. /\ cash'[a] = IF b.account = a THEN Stored(FundsAfter(b, p, cash[a])) ELSE cash[a]
        /\ cash[a] \in Nat
    BY <1>1, <1>2, <1>3 DEF CommitTrade, Settled, Inv, TypeOK
  <2>9. Off(cash[a], SumOver(f, Order), a) \in Within(SumOver(r, Order))
    BY DEF Balanced
  <2>10. CASE b.account = a
    <3>1. FundsAfter(b, p, cash[a]) = IF b.side = "BUY" THEN cash[a] - p * n
                                                       ELSE cash[a] + p * n
      BY DEF FundsAfter
    <3>2. b.side = "BUY" => cash[a] - p * n \in Nat
      BY <1>2, <1>4, <2>8, <2>10 DEF Settled, Covered
    <3>3. SumOver(q, Order) = SumOver(r, Order) + n + 1
      BY <1>4, <2>7, <2>10
    <3>4. SumOver(g, Order) = IF b.side = "BUY" THEN SumOver(f, Order) + n * Stored(p)
                                               ELSE SumOver(f, Order) - n * Stored(p)
      BY <1>4, <2>4, <2>10
    <3> HIDE DEF f, g, r, q, n
    <3>5. /\ cash[a] - p * n \in Nat =>
               Off(Stored(cash[a] - p * n), SumOver(f, Order) + n * Stored(p), a)
                 \in Within(SumOver(r, Order) + n + 1)
          /\ Off(Stored(cash[a] + p * n), SumOver(f, Order) - n * Stored(p), a)
               \in Within(SumOver(r, Order) + n + 1)
      BY <1>4, <2>4, <2>7, <2>8, <2>9, TradeRounded
    <3>6. Off(cash'[a], SumOver(g, Order), a) \in Within(SumOver(q, Order))
      BY <2>8, <2>10, <3>1, <3>2, <3>3, <3>4, <3>5
    <3> QED BY <3>6 DEF g, q
  <2>11. CASE b.account # a
    <3>1. SumOver(g, Order) = SumOver(f, Order) /\ SumOver(q, Order) = SumOver(r, Order)
      BY <2>4, <2>7, <2>11
    <3> HIDE DEF f, g, r, q
    <3>2. Off(cash'[a], SumOver(g, Order), a) \in Within(SumOver(q, Order))
      BY <2>8, <2>9, <2>11, <3>1
    <3> QED BY <3>2 DEF g, q
  <2> QED BY <2>10, <2>11
<1>13. ASSUME NEW a \in Account, NEW s \in Symbol
       PROVE  held'[a][s] = SumOver(Holdings(a, s)', Order)
  <2> DEFINE f == Holdings(a, s)  g == Holdings(a, s)'
             more == IF b.account = a /\ b.symbol = s THEN taken ELSE 0
  <2>1. f \in [Order -> Int] /\ f[o] = 0
    <3>1. f \in [Order -> Int]
      BY SumTypes
    <3>2. f[o] = 0
      BY <1>8 DEF Holdings
    <3> QED BY <3>1, <3>2
  <2>2. \A i \in Order : g[i] = IF i = o THEN more ELSE f[i]
    BY <1>7, <1>8, <1>9, <1>11 DEF Holdings
  <2>3. g \in [Order -> Int] /\ more \in Int
    BY <1>10, <2>1, <2>2 DEF Holdings
  <2>4. /\ SumOver(f, Order) \in Int
        /\ SumOver(g, Order) = SumOver(f, Order) + more
    <3> HIDE DEF f, g, more
    <3>1. g[o] = more /\ \A i \in Order : i # o => g[i] = f[i]
      BY <2>2
    <3>2. /\ SumOver(f, Order) \in Int
          /\ SumOver(g, Order) = SumOver(f, Order) + (g[o] - f[o])
      BY <2>1, <2>3, <3>1, SumChanged, OrdersFinite
    <3> QED BY <2>1, <2>3, <3>1, <3>2
  <2>5. held'[a][s] = held[a][s] + more /\ held[a][s] \in Nat
    <3>1. held'[a][s] = IF b.account = a /\ b.symbol = s
                        THEN SharesAfter(b, held[a][s]) ELSE held[a][s]
      BY <1>1, <1>2, <1>3 DEF CommitTrade, Settled, Inv, TypeOK
    <3>2. held[a][s] \in Nat
      BY DEF Inv, TypeOK
    <3> QED BY <1>4, <3>1, <3>2 DEF SharesAfter
  <2>6. held[a][s] = SumOver(f, Order)
    BY DEF Balanced
  <2> HIDE DEF f, g, more
  <2>7. held'[a][s] = SumOver(g, Order)
    BY <2>3, <2>4, <2>5, <2>6
  <2> QED BY <2>7 DEF g
<1>14. \A a \in Account :
         /\ Off(cash[a], SumOver(Spendings(a), Order), a)'
              = Off(cash'[a], SumOver(Spendings(a)', Order), a)
         /\ Within(SumOver(Rounded(a), Order))' = Within(SumOver(Rounded(a)', Order))
  BY NextSums DEF Off, Within
<1> QED
  BY <1>12, <1>13, <1>14, NextSums DEF Balanced

LEMMA BalanceInductive == Inv /\ Balanced /\ [Next]_vars => Balanced'
<1> SUFFICES ASSUME Inv, Balanced, [Next]_vars PROVE Balanced'
  OBVIOUS
<1>1. ASSUME NEW c \in Session, CommitOrder(c) PROVE Balanced'
  <2>1. /\ orders' = [orders EXCEPT ![tx[c].id] = StoredOrder(tx[c].order)]
        /\ UNCHANGED <<cash, held, executions>>
    BY <1>1 DEF CommitOrder
  <2>2. tx[c].id \in Order /\ ~Executed(tx[c].id)
    <3>1. /\ tx[c] \in Transaction
          /\ orders[tx[c].id] = NoOrder \/ Cancellable(orders[tx[c].id])
      BY <1>1, OrderFacts
    <3> QED
      BY <3>1 DEF Transaction, Inv, EachOrderFilledOnce, Cancellable, Executed
  <2>3. \A o \in Order : Executed(o) => orders'[o] = orders[o]
    BY <2>1, <2>2 DEF Inv, TypeOK
  <2> QED BY <2>1, <2>3, BalanceKept
<1>2. ASSUME UNCHANGED books PROVE Balanced'
  BY <1>2, BalanceKept DEF books
<1> QED
  BY <1>1, <1>2, BalanceTraded, OnlyCommitsWrite

\* Holdings are what the execution log says, and cash is up to its roundings, for any number of accounts,
\* symbols, orders, requests and workers: no update of two is lost or applied twice.
THEOREM BooksAlwaysBalance == Spec => []BooksBalance
<1>1. Inv /\ Balanced => BooksBalance
  BY BooksAreSums
<1> QED
  BY <1>1, BalanceInitial, BalanceInductive, Invariance, PTL DEF Spec
=============================================================================
