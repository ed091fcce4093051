------------------------------ MODULE Valuation --------------------------------
(***************************************************************************)
(* The valuations the API answers with, over the batch quotes of           *)
(* MarketSnapshots: of a paper account                                     *)
(* (services/trading/trading_portfolio_service.py) and of a portfolio      *)
(* (services/api/portfolio/valuation.py, libs/domain/valuation/models.py). *)
(*                                                                         *)
(* The valuation of an account reads its cash and its positions with two   *)
(* SELECTs of a READ COMMITTED transaction, ends the transaction, and only *)
(* then asks for prices.  The book is the sequence of the account's        *)
(* committed states, one trade of one unit at price 1 each (PaperTrading   *)
(* says how they come about), so that the cash a state leaves is known     *)
(* from its positions and equity at price 1 never changes.                 *)
(***************************************************************************)
EXTENDS MarketSnapshots, Sequences

CONSTANTS
  Market,
  US,         \* the market of every paper position
  MaxTrade    \* bound on the trades of the account

ASSUME ValuationAssumption ==
  /\ US \in Market /\ IsFiniteSet(Symbol)
  /\ MaxTrade \in Nat

VARIABLES
  book,       \* the open positions of the paper account after each commit
  value       \* the valuation each thread works on

valuationVars == <<book, value, snapshotVars>>

Instrument == Market \X Symbol

NoValue == [at |-> "idle"]
Value == {NoValue} \cup
  [at : {"account", "positions", "price", "valued"},
   kind : {"account", "portfolio"},
   cash : 0 .. MaxTrade + 1,          \* the state of the book its cash is of
   positions : SUBSET Instrument,     \* those it values
   priced : SUBSET Instrument,        \* those it has a price for
   refused : BOOLEAN]

ValuationTypeOK ==
  /\ SnapshotTypeOK
  /\ book \in Seq(SUBSET Symbol) /\ Len(book) \in 1 .. MaxTrade + 1
  /\ value \in [Thread -> Value]

ValuationInit ==
  /\ SnapshotInit
  /\ book = << {} >>
  /\ value = [t \in Thread |-> NoValue]

-----------------------------------------------------------------------------

ValueAt(t, stage) == value[t].at = stage

\* A buy or a sell of one unit commits.
CommitOneTrade(s) ==
  /\ Len(book) <= MaxTrade
  /\ LET open == book[Len(book)]
     IN book' = Append(book, IF s \in open THEN open \ {s} ELSE open \cup {s})
  /\ UNCHANGED <<value, snapshotVars>>

\* GET /trading/portfolio.
BeginAccount(t) ==
  /\ ValueAt(t, "idle") /\ BatchAt(t, "idle")
  /\ value' = [value EXCEPT ![t] =
       [at |-> "account", kind |-> "account", cash |-> 0, positions |-> {},
        priced |-> {}, refused |-> FALSE]]
  /\ UNCHANGED <<book, snapshotVars>>

\* get_by_user_id: the account row, with its cash.
ReadAccount(t) ==
  /\ ValueAt(t, "account")
  /\ value' = [value EXCEPT ![t].at = "positions", ![t].cash = Len(book)]
  /\ UNCHANGED <<book, snapshotVars>>

\* The symbols to ask prices for: not those held in several markets.
PriceableIn(positions) ==
  {s \in Symbol : Cardinality({m \in Market : <<m, s>> \in positions}) = 1}

\* Prices are asked for what can be priced; without positions nobody is asked.
AskPrices(t, positions) ==
  IF PriceableIn(positions) = {}
  THEN UNCHANGED snapshotVars
  ELSE BeginBatch(t, PriceableIn(positions))

\* list_by_account, a statement of its own; then the transaction ends.
ReadPositions(t) ==
  /\ ValueAt(t, "positions")
  /\ LET positions == {US} \X book[Len(book)]
     IN /\ value' = [value EXCEPT ![t].at = "price", ![t].positions = positions]
        /\ AskPrices(t, positions)
  /\ UNCHANGED book

\* GET /portfolios/{id}/valuation, the portfolio read.
BeginPortfolio(t, positions) ==
  /\ ValueAt(t, "idle") /\ BatchAt(t, "idle")
  /\ value' = [value EXCEPT ![t] =
       [at |-> "price", kind |-> "portfolio", cash |-> 0, positions |-> positions,
        priced |-> {}, refused |-> FALSE]]
  /\ AskPrices(t, positions)
  /\ UNCHANGED book

\* Quotes of status "ok" and "stale" are prices when their close is positive.
Priced(t, positive) ==
  {p \in value[t].positions :
     /\ BatchAt(t, "done") /\ p[2] \in batch[t].asks \cap positive
     /\ batch[t].quote[p[2]] # Missing}

MissingQuotes(t, priced) == value[t].positions \ priced

\* Mutant: a position without a price counts for nothing.
NeverRefused(t, priced) == FALSE

\* _validate_market_prices: an account is not valued without all prices, a
\* portfolio is, its missing prices explicit.
Refused(t, priced) ==
  /\ value[t].kind = "account"
  /\ MissingQuotes(t, priced) # {}

\* The valuation is computed, or refused.
Conclude(t, positive) ==
  /\ ValueAt(t, "price")
  /\ BatchAt(t, "done") \/ BatchAt(t, "idle")
  /\ LET priced == Priced(t, positive)
     IN value' = [value EXCEPT ![t].at = "valued", ![t].priced = priced,
                               ![t].refused = Refused(t, priced)]
  /\ batch' = [batch EXCEPT ![t] = NoBatch]
  /\ UNCHANGED <<book, fresh, stale>>

AnswerValue(t) ==
  /\ ValueAt(t, "valued")
  /\ value' = [value EXCEPT ![t] = NoValue]
  /\ UNCHANGED <<book, snapshotVars>>

\* Requests for batch quotes, alone or for a valuation.
Batches ==
  /\ \/ \E t \in Thread :
          \/ /\ ValueAt(t, "idle")
             /\ \/ \E symbols \in (SUBSET Symbol) \ {{}} : BeginBatch(t, symbols)
                \/ AnswerBatch(t)
          \/ BatchStep(t)
     \/ SnapshotTick
  /\ UNCHANGED <<book, value>>

ValuationNext ==
  \/ Batches
  \/ \E s \in Symbol : CommitOneTrade(s)
  \/ \E t \in Thread :
       \/ BeginAccount(t) \/ ReadAccount(t) \/ ReadPositions(t)
       \/ \E positions \in SUBSET Instrument : BeginPortfolio(t, positions)
       \/ \E positive \in SUBSET Symbol : Conclude(t, positive)
       \/ AnswerValue(t)

ValuationSpec == ValuationInit /\ [][ValuationNext]_valuationVars

-----------------------------------------------------------------------------

\* The equity of an account at price 1, less its initial cash: the cash is that
\* of one state of the book, the positions those of another.
Equity(t) ==
  Cardinality(value[t].priced) - Cardinality(book[value[t].cash])

\* An answer with the value of an account accounts for all of its money: its cash
\* is that of a committed state i, its positions are all of those of a state j, i
\* no later than j, and equity is off by no more than the trades that committed
\* between its two SELECTs.  An open position without a price is never taken for
\* zero (trading_portfolio_service.py 123-277).
EquityExplained ==
  \A t \in Thread :
    ValueAt(t, "valued") /\ value[t].kind = "account" /\ ~value[t].refused =>
      \E j \in value[t].cash .. Len(book) :
        /\ value[t].priced = {US} \X book[j]
        /\ Equity(t) \in value[t].cash - j .. j - value[t].cash
=============================================================================
