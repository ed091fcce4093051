# RealStock Enterprise: TLA+ models, model checking and proofs

This directory models the parts of RealStock Enterprise in which several
processes share state: the transactional outbox, persisted paper trading, the
portfolio service, the risk engine, the alert worker, and the smaller services
of the API and the market ingestor around Redis and PostgreSQL: watchlists,
account opening, batch quotes, valuations, news and the quote cache. Each module is
translated from the Python source; TLC checks small instances, and TLAPS proves
the safety properties for every value of the constants. Paths below are
relative to `src/`.

Contents: 1 the system; 2 the modules; 3 what TLC checks; 4 bounds; 5 fairness;
6 what is proved; 7 where code and documents disagree; 8 what is left out;
9 plan.

## 1. The system

```
            HTTP                                         Kinesis
 client ----------> API processes        provider -> ingestor ------> risk engine
                    |  portfolio service                |                 | put_events
                    |  paper trading, watchlist         v                 v
                    v                             Redis quote cache   EventBridge
              PostgreSQL <---- pending-order worker     ^                 |
              (tables, outbox)                          | trading quotes  v
                    ^                                   |               SQS
                    |                                                     |
             outbox dispatchers ------> EventBridge                 alert workers
                                                               (DynamoDB, SNS)
```

| component | state it keeps | operations | interacts through | hard behaviour | what makes it correct |
|---|---|---|---|---|---|
| outbox dispatcher (`services/outbox_dispatcher`, `libs/database/repositories/outbox.py`) | `outbox_events` rows: published, attempts, next attempt, lease; the claimed batch in memory | claim, publish, mark published, mark failed | rows locked with SKIP LOCKED; EventBridge | several workers, leases that expire while work goes on, unlocked acknowledgement, lost answers, crashes | nothing is marked published that was not delivered; live leases exclude one another; every event is published |
| portfolio service (`services/api/portfolio/service.py`, `libs/database/repositories/portfolio.py`) | portfolios, positions, outbox rows | create, add, update, remove, queries | PostgreSQL row locks and a unique constraint; the outbox | concurrent requests, event order, rounding | change and event are one atomic step; the events tell the history |
| paper trading (`services/trading/persistent_paper_trading_service.py`, `libs/trading/paper_broker.py`, `libs/database/repositories/trading.py`) | accounts, positions, orders, executions | market order, submit limit, process, cancel | row locks; the quote service | races on one order or one account, several locks per transaction, stale reads | no double fill, books balance, no deadlock |
| pending-order worker (`services/trading/pending_order_worker.py`) | ids discovered in this cycle | discover, process | the service above | restarts, failing orders, batch limit | an order that can fill does not stay pending |
| risk engine (`services/risk_engine`, `libs/domain/risk/rules.py`) | latest quote per instrument, in memory | process a record, publish an alert | Kinesis records, EventBridge | late and repeated records, failed publication, restart | state is the newest quote; one alert per move; no alert lost |
| alert worker (`services/alert_worker`) | claims in DynamoDB, messages in SQS | claim, notify, complete, release, delete | conditional writes | copies of one alert, expired claims, lost answers, crashes | every alert is notified; a remembered one is not notified again |
| unit of work (`libs/database/unit_of_work.py`) | one session and transaction | commit, rollback | PostgreSQL | implicit rollback on exit | all or nothing |
| trading accounts (`services/trading/trading_account_service.py`, `trading_query_service.py`) | `paper_accounts` | open account, look up account and orders | no unique constraint on the user | requests that overlap | a second account only by a race; no order unknown without one |
| watchlist (`services/api/watchlist/service.py`) | `watchlist_items` | add, remove, list | unique key, item count | limit checked before the insert, refresh after the commit | the excess over the limit is bounded |
| batch quotes (`services/api/market_batch.py`, `market_snapshot_cache.py`) | fresh and stale copies with two TTLs in Redis | get | Redis, Twelve Data | Redis failing at any command, slow requests that write late | bounded age; Redis is optional |
| valuations (`services/trading/trading_portfolio_service.py`, `services/api/portfolio/valuation.py`) | none | value an account, a portfolio | PostgreSQL, batch quotes | two reads without a snapshot, missing prices | an answer accounts for all the money |
| news (`services/api/news_service.py`, `news_cache.py`, `news_provider.py`) | fresh and stale lists in Redis | get | Redis, Twelve Data pages | pages that shrink and shift | no gap in a list |
| quote cache (`libs/cache/market_quote_cache.py`) and its writers | quotes in Redis with a TTL | get, set | ingestor service, Alpaca provider, simulation route | writers that do not compare timestamps; publication and SET one after the other | bounded age; the cache follows the stream |
| market ingestor process (`services/market_ingestor/runner.py`) | count and turn of the loop | publish, stop | Kinesis, signals | lost answers, signals at any moment | no record too many |
| schemas, candles, health, settings, observability, frontend, infrastructure | none a decision of the above reads | | | | |

`PROJECT.json` lists all 30 components with the status of each, and the hazards
of the code, each at its line and with the properties that would catch it.

## 2. The modules

| module | models | abstract specification | checked by | proofs |
|---|---|---|---|---|
| `OutboxDispatcher` | dispatcher iterations over the outbox table | `AtLeastOnce` | `OutboxSlow.cfg`, `OutboxPrompt.cfg`, `OutboxLateAck.cfg` (through `MCOutboxDispatcher`) | `OutboxDispatcherProofs` |
| `PaperTrading` (rules in `TradingRules`) | the four transactions, their locks, the pending-order worker | `TradingBook` | `PaperRaces.cfg`, `PaperWorker.cfg`, `PaperStarvation.cfg` (through `MCPaperTrading`) | `PaperTradingProofs` |
| `Portfolio` | the portfolio transactions and the outbox rows they write | `PortfolioLedger` | `Portfolio.cfg`, `PortfolioUnreadable.cfg` | `PortfolioProofs` |
| `RiskEngine` | the keyed state, the rule, publication, replay | | `RiskEngine.cfg`, `RiskLostAlert.cfg` | `RiskEngineProofs` |
| `AlertWorker` | workers, claims, messages | `AtLeastOnce` | `AlertSlow.cfg` (through `MCAlertWorker`) | `AlertWorkerProofs` |
| `Watchlist`, `TradingAccounts` | the requests of both services, statement by statement | | `Services.cfg` (through `MCServices`) | `ServicesProofs` |
| `MarketSnapshots` | batch quotes over Redis and the provider | | `Services.cfg` | `MarketSnapshotsProofs` |
| `Valuation` | valuations, composed with the batch quotes of `MarketSnapshots` | | `Services.cfg` | `MarketSnapshotsProofs` |
| `News` | news lists and their collection | | `Services.cfg` | `ServicesProofs` |
| `QuoteFlow`, `MarketRunner` | the quote cache with its writers and readers; the ingestor process | | `Services.cfg` | `QuoteFlowProofs` |

`ApiThreads` has what the API modules share: request threads, and copies in
Redis that grow old and expire.
`AtLeastOnce` is shared: stored, delivered and acknowledged are the row, the
accepted EventBridge call and `published_at` for the outbox; the alert that
arrived, the accepted SNS call and the deleted message for the alert worker.
Operators marked *Mutant* in a comment are plausible wrong versions of the
definition after them. No specification uses them; each property of a passing
run is violated when one of them takes the place of the definition.

### OutboxDispatcher

`BeginDispatch` is the clock reading of `dispatch_once()`, `Claim` the claim
transaction, `Publish` the EventBridge call, `LoadClaimed` and
`WritePublished`/`WriteFailed` the SELECT and the UPDATE of an acknowledgement.
The last two are separate because `_get_claimed_model()` locks nothing.
`Abandon` is a database exception or the death of a process at any point.

* Time is relative: a timestamp is its distance from the present, so the state
  space needs no bound on the clock. All processes read one clock; skew between
  hosts is not modelled.
* `Claim` may skip rows another transaction may have locked (`Contended`).
* The retry delay counts from the start of the iteration, which may be old by
  then (`dispatcher.py:306`), and is chosen by the attempt count of the claimed
  snapshot, while the count written is the loaded one plus one. Two late workers
  can thus record one failure for two (`outbox.py:481`); `EveryFailureCounted` holds
  where iterations end before their leases do.
* Attempt counts stop at the last delay: beyond it the code always uses that one.
* The requests that the AWS client resends inside one `put_events` call are one
  `Publish` here: an event is delivered or not, and the sends that
  `RedeliveryNeedsExpiry` is about are those of the dispatcher.
* The stop event only keeps a worker from beginning another iteration.
* `last_error`, metrics and the backlog snapshot decide nothing and are left out.

### PaperTrading

A session is an API request or a worker. It locks the rows of `LockPlan(op)` one
by one and copies each as it is locked (`LockAccount`, `LockOrder`,
`LockPosition`), decides on the copies and one quote (`Trade`, `Enter`,
`Withdraw`, `Leave`, `Refuse`), and writes them back (`Commit`). `Abort` is any
error, a missing quote included. Processing and cancelling begin with an
unlocked read of the order that only tells which account to lock; the object
goes out of scope and SQLAlchemy's identity map holds it weakly, so the locked
read is fresh. The variant that keeps the routing copy is a mutant.

* Prices and money are integers, `Digit` of them one unit in the last place of a
  `NUMERIC(20, 6)` column. A commit writes every limit, balance and execution price
  as the column keeps it (`Stored`), and an order in memory (`PaperOrder`) is told
  from its row (`PaperOrderModel`).
* A limit price only has to be above zero (`services/api/schemas/trading_write.py:27`).
  One below half the last digit is stored as zero, and its row is no `PaperOrder`
  any more (`Readable`): requests for it fail at their routing read, and the worker's
  `ProcessOne` logs the failure and goes on.
* Quotes that would be stored as zero are left out: the CHECK on the price of an
  execution makes PostgreSQL refuse the trade.
* Average cost and realized profit decide nothing and are left out.
* A position row exists from the first trade; a missing row locks nothing, and
  the account lock alone keeps two first buys apart.
* Quotes change at any time, between two steps of a transaction too.
* `Discover` returns any `BatchSize` triggerable orders: the query has no ORDER BY.
* A repeated market order after a lost answer is simply another request: it gets
  its own order id (`paper_broker.py`), so nothing recognizes it.

### Portfolio

A request loads the portfolio (`GetPortfolio`), then looks for the instrument or
locks the position, builds the new row and reads the clock (`AddPosition`,
`UpdatePosition`, `DeletePosition`), flushes (`Flush`, or `Refuse` on the unique
constraint) and commits row and event together. The flush updates the portfolio
row first (`_touch_portfolio`), so writers of one portfolio go one at a time
from there on; position before portfolio is the only order in which locks are
taken. Queries are `GetPortfolio` followed by `Return`.

* Numbers are in units finer than the last digit a row keeps; `Stored` is the
  rounding of `NUMERIC(38, 10)`. The event tells the request's number, the row
  keeps the rounded one.
* `occurred_at` is read before the flush. Per position the order of the times is
  the order of the commits (`OutboxTellsHistory`); across positions of one
  portfolio it need not be.
* `portfolios.updated_at` is left out (it can go backwards; nothing reads it).
* Portfolios are never deleted by the code. One strictly increasing clock is assumed.
* The existence check and the clock reading of an addition are one step: the new
  id is fresh, so nothing can come between them that the unique constraint does
  not refuse.

### RiskEngine

`Ignore`, `Advance` and `Raise` are the three ways through `process_event`;
`Raise` has already moved the state when `Publish` is tried. One call of
`put_events` makes up to `Attempts` requests (`libs/aws/clients.py:12`): `Resend` is
one that was not answered, accepted or not, `Publish` the last one and the end of the
call, so EventBridge may accept copies of one alert. When `Publish`
fails, `next` stays: the runtime hands over the same record. `Restart` empties
the state and goes back to the checkpoint. The state is in memory only, so an
alert of a replayed record after a restart is a new one with another event id.
Poison records are not modelled. Bid and ask are folded to their mid price,
percentages are whole numbers. `MoveSeverity` is the rule itself: the properties
compare which quotes it was applied to, not its formula.

### AlertWorker

Each AWS call is one step: `Receive`, `ClaimEvent`/`ClaimRefused`, `GetStatus`,
`Publish`, `Release`, `Complete`/`CompleteRefused`, `Acknowledge`. A call may
take effect although the worker sees it fail: the notification is then sent
twice, or a claim or completion stands that nobody follows up. `Expire` is the
table's time-to-live. SQS may hand any undeleted message to any worker at any
time, which covers visibility timeouts and duplicates. A message that cannot be
parsed, the receive limit and the dead-letter queue are left out; the repository
has no loop around `poll_once()`, so the program that calls it is external.

### Watchlist and TradingAccounts

A thread of the API serves one request at a time; `Thread` are the threads of all
processes. Both services read before they write and lock nothing.

* `LookUp`, `Count` and `Insert` are the three statements of an addition. An
  `Insert` or `DeleteRow` waits for another transaction that has written its key
  (`HeldByOther`); `Refresh` reads the row again after the commit and may fail
  although the item was added.
* A deletion remembers whether the row it found still exists (`row`): a second
  deletion of one row matches nothing and succeeds; one that finds a new row of
  the same symbol deletes that one.
* `max_items` is the setting that also limits a batch quote request
  (`market_batch_max_symbols`): a watchlist over its limit can no longer be
  asked for in one request.
* `CheckNone` and `CommitAccount` are the SELECT and the INSERT of
  `open_account()`. `LookForOrder` is any query or command that resolves the
  account of its user, any of them as there is no ORDER BY, and looks there for
  an order that was placed with an account of the user.

### MarketSnapshots and Valuation

A batch request goes through `ReadFresh`, `Fetch`, `PutFresh`/`PutStale` (the
pipeline of `put_many()` is no transaction: commands of others come in between),
`EndPut`, `ReadStale` and `AnswerBatch`. Redis may fail at each of them, and an
error may be reported for commands that took effect. The age of a quote is the time since the provider
returned it; `MaxHold` is how long a request may take.

`Valuation` extends it: a valuation begins the batch request of its thread and
concludes with its quotes, so that copies and failures of the batch are those of
the valuation. `ReadAccount` and `ReadPositions` are two statements; between them
and after them trades commit (`CommitOneTrade`). The account's history is a
sequence of sets of open positions, each trade one unit at price 1: what a state
leaves in cash follows from its positions. Symbols held in several markets are
not asked for. Portfolios are valued with missing prices, accounts not at all.
The `stale` flag of a price gets no further than `ValuationPrice`: the answer of
a portfolio valuation does not tell a stale price from a fresh one
(`services/api/portfolio/valuation.py:217`).

### News

Releases are numbered as they appear. `TakeNewsPage` takes the page that Twelve
Data has at that moment: that page p of size z starts after (p - 1) z newer
releases is an assumption about the provider. The releases for one set of symbols are
one stream with one fresh and one stale copy. `FailNewsSort` is the `TypeError` of
sorting times with and without a zone: it is no `NewsProviderError`, so the stale
copy is not consulted (`services/api/news_provider.py:196-209`). Items are cut to
`limit` only in the answer.

### QuoteFlow and MarketRunner

`BeginIngest`, `PublishEvent` and `CacheIngested` are `MarketIngestorService`: a
publication may be accepted although the call fails, the quote is then not
cached. Trading requests and the pending-order worker read the cache, fetch from
Alpaca and write the cache (`ReadQuote`, `FetchQuote`, `SetFetched`), and fail
when Redis fails. `Simulate` is the local simulation route. The last writer wins.

`MarketRunner` is the loop of the process in `runner.py`, which calls the producer
directly and does not write the cache; nothing in the repository but its tests
calls `MarketIngestorService`. One `put_record` makes up to `Attempts` requests
(`ResendRecord`, then `PublishRecord`), each of which Kinesis may accept although it
is not answered: `sent` counts events in the stream, `repeats` the further records
of an event. A failed publication ends the process;
`StartAgain` is another start with any mode and limit. In `QuoteFlow` the copies of a
record are one event: they change neither the quote last published nor the cache.

### MCServices

The services above share no state with one another (`Valuation` contains
`MarketSnapshots`). A behaviour of `MCServices` therefore chooses one of them and
leaves the rest as it was: the state spaces add up instead of multiplying. Batch
quotes and valuations are chosen in two forms: two threads and one symbol ("many
requests"), one thread and two symbols ("many symbols").

## 3. What TLC checks

| run | module, cfg | distinct states | shows |
|---|---|---|---|
| `outbox_slow` | `MCOutboxDispatcher`, `OutboxSlow.cfg` | 607,600 | however slow, crashing and misinformed workers are: nothing is acknowledged undelivered (`PublishedWasDelivered`), live leases exclude one another unless a late acknowledgement overwrote one (`LeaseExclusion`), a published event is sent again only after an expiry (`RedeliveryNeedsExpiry`), and the dispatcher implements `AtLeastOnce` (`ImplementsAtLeastOnce`) |
| `outbox_prompt` | `OutboxPrompt.cfg` | 1,940 | when iterations end before leases do: no acknowledgement is rejected (`AcknowledgementAccepted`), one worker per event (`OneWorkerPerEvent`), no failure is lost and delays grow with their number (`EveryFailureCounted`), and every event is published (`EventuallyPublished`) |
| `outbox_late_acknowledgement` | `OutboxLateAck.cfg` | violation | the owner rule fails for slow workers (section 7) |
| `paper_races` | `MCPaperTrading`, `PaperRaces.cfg` | 448,701 | races of two API requests and a worker: one execution per filled order (`EachOrderFilledOnce`), shares are what the executions say, and cash up to the rounding of the columns (`BooksBalance`), decisions are made on locked and current rows (`DecidesOnLockedRows`), whoever another transaction waits for can go on (`NoCircularWait`), final orders stay (`FinalOrdersStay`), an order whose limit was stored as zero is dead (`UnreadableOrdersStay`), the transactions implement `TradingBook` (`ImplementsBook`) |
| `paper_worker` | `PaperWorker.cfg` | 139,758 | every transaction ends (`TransactionsEnd`); with a batch that takes all pending orders, none that can be read stays fillable for ever, though others fail in every cycle (`NoOrderFillableForever`) |
| `paper_starvation` | `PaperStarvation.cfg` | violation | with a smaller batch an order may never be processed (section 7) |
| `alert_slow` | `MCAlertWorker`, `AlertSlow.cfg` | 18,700 | workers that may outlive their claims: two hold one event only after an expiry (`LeaseExclusion`), a worker within its lease owns the record it completes or releases (`HolderOwns`), nobody touches another's live claim (`LiveClaimRespected`), completions are kept for the retention (`CompletionKept`), nobody within the lease notifies a completed event again (`CompletedNotRepeated`), no message is deleted before a notification (`ImplementsAtLeastOnce`), every alert is notified, and every message deleted unless workers outlive their leases for ever (`EventuallySettled`) |
| `risk_engine` | `RiskEngine`, `RiskEngine.cfg` | 326,145 | late, repeated and replayed records and resent requests: the state is the newest quote (`StateIsNewest`), an alert compares the right two quotes (`AlertsComparePredecessors`), a process raises no second alert of a record once EventBridge has accepted one, so all it accepts are copies of one call (`ReplayRaisesNoAlert`) |
| `risk_lost_alert` | `RiskLostAlert.cfg` | violation | a failed publication loses its alert (section 7) |
| `portfolio` | `Portfolio`, `Portfolio.cfg` | 351,895 | two requests at a time: the events of a position tell its history (`OutboxTellsHistory`), the requests implement `PortfolioLedger` (`ImplementsLedger`), an unreadable portfolio stays so (`UnreadableStays`) |
| `portfolio_unreadable` | `PortfolioUnreadable.cfg` | violation | rounding makes a portfolio unreadable (section 7) |
| `services` | `MCServices`, `Services.cfg` | 1,257,243 | n overlapping requests exceed the watchlist limit by at most n - 1 (`WatchlistOverrun`) and open at most n accounts for a user, without which no order is unknown (`AccountsOnlyByRace`); the age of every quote answered is bounded (`ServedAgeBounded`), and what the provider returned is answered whatever Redis does (`RedisIsOptional`); the equity of an account is off by at most the trades between its two reads, and no open position counts for nothing (`EquityExplained`); news lists have no gaps (`NewsWithoutGaps`); an order trades at a quote of bounded age, and the cache is behind the stream only after a failure (`TradedQuotesCurrent`); the ingestor process sends no event too many, and each in no more records than a call makes requests (`RunnerAccounts`) |

`outbox_slow` and `paper_races` also check the type invariants of their modules;
those of all modules are proved. To repeat a run:
`tlc -config OutboxSlow.cfg MCOutboxDispatcher`. The longest takes a few minutes.

## 4. Bounds

* Outbox: two workers and two events meet every interleaving of two actors on
  one row, and a batch whose first event fails and leaves the second one leased.
  `MaxDispatch` above `Lease` lets iterations outlive leases (slow); `Lease`
  above `MaxDispatch` is the prompt case. Two delays show that the delay grows and stops
  growing. `OutboxPrompt` has one event and a batch of one, because liveness with two
  took longer than the other runs together; its safety is proved for all events and
  batches. That the rest of a batch whose iteration ended early is published in the
  end is therefore neither checked nor proved; `OutboxSlow` has such batches, for safety.
* Paper trading: two clients and a worker on one account, one symbol, two orders and two
  prices: 63 in cash for two shares at 30 or one at 61, so
  that two orders compete for it. `Digit` is 3, the smallest with which a positive
  number is stored as zero: 30 is stored as it is, 61 as 60, a limit of 1 as zero. One account is enough for races, which are on
  one account's rows; `Serializable` is proved for all accounts and symbols.
  `PaperStarvation` has a batch of one and two orders, the smallest case in
  which the batch is smaller than the number of pending orders.
* Portfolio: two sessions, one portfolio, two instruments and two position ids,
  so that two additions of one instrument, two updates, an update and a removal,
  and a removal and re-addition meet; six clock readings, hence at most six
  requests that write. Among the quantities 4 is rounded to zero and 12 to 10.
* Risk engine: three records of two instruments, two timestamps and three prices: a move
  of none, warning and critical size; late, equal and newer timestamps. Two requests a
  call (`Attempts`), the least that make a copy.
* Alerts: two messages of one event and two workers. Events share nothing, so one is enough
  for the claims. `MaxHold` above `Lease` is the slow case.

* Services: two threads are the least that race; each service has the least room in
  which its race happens: one watchlist item, three accounts, TTLs of one and two
  with requests of duration one, one trade between two reads. `Valuation` has two
  markets, so that a symbol can be held in both. News has pages of two, four
  releases wanted and five released, so that the last page shrinks and shifts;
  one request at a time, as requests only meet in the two copies, each written
  whole. `MarketRunner`: four events, three requests a call as in the code, every mode
  and limit.

Constants that only bound a run: `MaxDispatch` and `MaxHold` (also a real
parameter: how slow a worker or a request may be), `MaxRecord`, `MaxEvents`,
`MaxTime`, `MaxTrade`, `MaxRelease`, `MaxQuote`, and the finite sets
`Order`, `PositionId`, `Event`, `Message`. The proofs are for all values of each.

## 5. Fairness

* **Outbox** (`OutboxDispatcher!Fairness`): the runner's loop goes on and ECS
  restarts a dead worker (weak fairness of a worker's step and of time). A claim
  that gets rows, a publication and an acknowledgement that are tried again and again
  succeed again and again (strong fairness): the failures of AWS and PostgreSQL
  are not permanent. Nothing forces an iteration to be quick; `EventuallyPublished` is claimed where iterations end
  before leases do. With two workers that are always slow it is false, and even
  delivery is not certain with two events: an event at the head of the batch whose
  acknowledgement is rejected each time ends the iteration before the next event's turn.
* **Paper trading**: a running thread goes on; PostgreSQL queues the waiters of
  a row lock, so a lock that is free again and again is granted (strong fairness of
  `Lock`); the worker loop survives the failure of one order; and failures of the
  infrastructure (`Fault`) are not repeated for ever. A step that refuses an
  order or commits nothing for a reason the code has is no fault.
* **Alerts**: SQS delivers again what is not deleted, time passes, a worker that
  has a message acts, and for each message every call that is tried again
  and again succeeds again and again. Workers may crash as often as they like.
  The deletion of the message is promised unless every attempt outlives its lease.
* Portfolio, risk engine and the services: safety only. The services' requests end
  when their last step is taken; nothing waits but for a row another transaction
  holds, which ends by itself.

## 6. What is proved

Every invariant and every action property of the passing runs, and the three
refinements, for every value of the constants allowed by the named assumptions of
each module (`OutboxAssumption`, `RulesAssumption`, `TradingAssumption`,
`PortfolioAssumption`, `RiskAssumption`, `AlertAssumption`, `ThreadAssumption`,
`WatchlistAssumption`, `AccountAssumption`, `SnapshotAssumption`,
`ValuationAssumption`, `NewsAssumption`, `QuoteAssumption`, `RunnerAssumption`; TLC
evaluates them in the runs). They say that sizes and times are natural numbers, that
model values are distinct, and that the sets summed over or counted are finite:
order ids, for one, are UUIDs, of which there are finitely many. `RulesAssumption` also
says that no quote is stored as zero (section 2, PaperTrading).

| module | theorems | inductive invariant, and why the property alone is not enough |
|---|---|---|
| `OutboxDispatcherProofs` | `TypeCorrect`, `PublishedOnlyDelivered`, `AtLeastOnceRefined`, `LeasesExclude`, `RedeliveryOnlyAfterExpiry`; with `MaxDispatch < Lease`: `PromptIsExclusive`, `PromptAcknowledgementAccepted`, `PromptOwnerAcknowledges`, `PromptFailuresCounted` | `DeliveryInv`: what a worker is about to write as published it has delivered. `LeaseInv`: a claimed event is still the worker's, for as long as its lease has left, unless overwritten. `PromptInv`: the same without the exceptions. `CountInv`: the attempt counts a worker claimed and loaded are those of the rows, since nobody else holds its events |
| `PaperTradingProofs` | `TypeCorrect`, `OrdersFilledOnce`, `DecisionsAreCurrent`, `NobodyWaitsInCircles`, `FinalOrdersAreFinal`, `UnreadableNeverTraded`, `Serializable`, `BooksAlwaysBalance` | `Inv`: a session that locked an account is alone there; the copies it has read are the rows; what it has decided is one operation of the book on the present rows. A session that holds any row holds its account's, so it waits for nobody (`HoldersNeverWait`). An order in memory has a positive limit, so a session that writes a row has read one that is not dead (`UnreadableNeverTraded`). The books balance with the sums over orders described below |
| `PortfolioProofs` | `TypeCorrect`, `HistoryTold`, `UnreadableForGood`, `LedgerRefined` | `Inv`: committed times have passed, loaded portfolios exist, and what a request decided still fits the rows it has locked, no other request having them locked too |
| `RiskEngineProofs` | `TypeCorrect`, `NewestQuoteKept`, `AlertsCompareRight`, `NoAlertRepeated` | `Inv`: the state is the newest quote up to the last record, or up to the current one while its alert is published or retried; an alert this process had accepted belongs to a record the state is past, or to the one it is publishing, whose quote the state already is |
| `AlertWorkerProofs` | `TypeCorrect`, `ClaimsExclude`, `LiveClaimsRespected`, `CompletionsKept`, `HolderOwnsClaim`, `CompletedNotNotified`, `AtLeastOnceRefined` | `NotifiedFirst`: completion and deletion follow a notification. `HoldsWithinLease`: a worker in possession owns the record, with all the lease it has not used, or has outlived it |
| `MarketSnapshotsProofs` | `SnapshotsTyped`, `AgesBounded`, `RedisOptional`; `ValuationsUseSnapshots`, `ValuationsTyped`, `EquityAccountedFor` | `SnapshotInv`: age and remaining time of a copy are at most TTL and `MaxHold`; what is being put is the provider's and as old as the request at most; a missing symbol was not returned. `ValuationInv` adds that n trades change the number of open positions by n at most, and that the positions being priced are all of those of one state of the book no older than that of the cash |
| `QuoteFlowProofs` | `QuotesTyped`, `QuotesCurrent`; `RunnerTyped`, `RunnerAccountable` | `QuoteInv`: the same of a cached quote under the TTL of its writer; the quote about to be cached is the last published and its symbol behind. `RunnerInv`: between two events all are counted, it is the next kind's turn, and nothing was sent after a signal unless the loop is about to see it; while one is published, its copies are at most the requests made for it |
| `ServicesProofs` | `WatchlistTyped`, `WatchlistBounded`; `AccountsTyped`, `AccountsRaced`; `NewsTyped`, `NewsGapless`; `ServicesAreEach`, `ServicesTyped`, `ServicesSafe` | `WatchlistOverrun` and `AccountsOnlyByRace` are inductive with the types: a new item costs a counted thread, a new counted thread is one that was not there. `NewsInv`: the pages taken so far reach down to some release (`Floor`), with all well-formed ones above it and none below, and the next page begins no lower, whatever was released meanwhile. `ServicesAreEach`: a behaviour of `MCServices` is one of every service, so the properties hold of the composition that TLC runs |

Each proof module has one lemma per action that keeps the invariant, one theorem
per property. Refinements are proved as initial state and step simulation:
`ValuationsUseSnapshots` is one too, a valuation's steps being steps of the batch
quotes or none, so that the theorems about the batch quotes hold under valuations.

`BooksBalance` sums over orders. The fold of the community modules is a recursive
function over subsets, whose existence (`SumsExist`) and whose change at one point
(`SumChanged`) need induction over finite sets. The library's induction theorems take
operators as parameters, which the provers cannot instantiate; instead a
counterexample of least cardinality is taken (`LeastNumber`, from the
well-foundedness of the natural numbers) and one element removed from it. A commit
then changes both sides of the balance by the same amount, but for half a digit per
rounded column and share (`Rounding`, `TradeRounded`), which `Roundings` counts.

Only model-checked: liveness (`EventuallyPublished`, `EventuallySettled`,
`TransactionsEnd`, `NoOrderFillableForever`), which needs fairness and ENABLED,
beyond the prover. `NobodyWaitsInCircles` is the safety half of `TransactionsEnd`.
The properties of the four runs that end in a violation are false;
`PromptOwnerAcknowledges` proves one of them for dispatchers whose iterations end
before their leases. `EveryFailureCounted` too is false without that: two slow
workers may load one count and write one sum.

## 7. Where code and documents disagree

Four runs are expected to end in a violation.

1. `outbox_late_acknowledgement`: "Only the worker currently owning the lease may
   acknowledge the event" (`libs/database/repositories/outbox.py:394`). The row is
   read without a lock and without a test of `locked_until`; a worker whose lease
   runs out between read and write acknowledges an event another worker has
   claimed, and clears that worker's lease.
2. `paper_starvation`: the pending-order worker is to "process each order"
   (`services/trading/pending_order_worker.py:44`). It takes any `batch_size`
   pending orders each time and may take the same ones for ever. With a batch
   that takes all of them the corresponding property holds (`paper_worker`).
3. `risk_lost_alert`: a failed publication is propagated so that the record is
   retried (`services/risk_engine/consumer.py:177`), but the state has already
   moved, the retried quote is not newer than itself, and the alert is lost.
4. `portfolio_unreadable`: positions have positive quantity and cost
   (`libs/domain/portfolio/models.py:54`), yet a positive number below half of the
   last digit is stored as zero and the portfolio cannot be read any more,
   nor the position removed. `UnreadableStays`, proved, says that no request
   repairs it.

Paper trading has the same defect without a run of its own. A limit price between
zero and half of the sixth decimal passes every validator and is stored as zero; from
then on `PaperOrder` refuses the row (`libs/trading/models.py:244`). The order can
neither be filled nor cancelled, lists of orders that contain it fail, and
it stays `PENDING`, so that each discovery of the pending-order worker may return it
and fail on it. `UnreadableOrdersStay`, proved (`UnreadableNeverTraded`), says that
this is for good; `NoOrderFillableForever` therefore speaks of the orders that can be
read. Enough such orders fill every batch, as in 2.

## 8. What is left out

Besides what section 2 names: the components listed as `not_modelled` in
`PROJECT.json`: those that only read or compute (the outbox listing, schemas,
the alert parser, health checks, observability, the random mock provider) and
those that are wiring (settings, process shells, frontend,
infrastructure). `services/api/market_candles.py` is left out because it imports
a module the repository does not contain and nothing uses it; the candle routes pass
the provider's answer on. Of valuations the amounts are left out: average cost,
profit and loss, percentages; and the midpoint prices of a local environment, which
are reads of the quote cache. Which requests of a client repeat one whose answer was
lost is the client's affair: a repetition is another request. The database, EventBridge, SQS, SNS, DynamoDB and Kinesis are modelled by
what the code relies on: READ COMMITTED, row locks and unique constraints;
calls that take effect or not, whatever the caller sees; conditional writes;
at-least-once queues; an ordered shard.

## 9. Plan

Done, in this order: outbox dispatcher, paper trading, alert worker, risk
engine, portfolio; then watchlist and accounts, batch quotes and valuations, news,
the quote cache and the ingestor; proofs of the safety properties of all of them. Next:

1. `MarketToAlert`: `RiskEngine` and `AlertWorker` composed by the event bus,
   with the promise from a record to its notification; `Portfolio` composed with
   `OutboxDispatcher` (the outbox variable shared), with the promise from a commit
   to its delivery; the refinements of both from those of their parts.
2. The amounts of a valuation and the price-move rule as functions, checked
   against reference definitions over small numbers.
