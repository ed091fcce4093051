------------------------------- MODULE QuoteFlow -------------------------------
(***************************************************************************)
(* Latest bid/ask quotes: who writes and who reads the Redis cache of      *)
(* libs/cache/market_quote_cache.py.                                       *)
(*                                                                         *)
(* The market ingestor service publishes a quote to Kinesis and then       *)
(* caches it; a trading request that finds no quote fetches one from       *)
(* Alpaca and caches it; the simulation route, in a local environment,     *)
(* caches what it is given.  Nobody compares timestamps: the last SET wins *)
(* and lives for its TTL.  Quotes are told apart by their writer, the      *)
(* ingestor's also by their number in the stream of their symbol.          *)
(***************************************************************************)
EXTENDS ApiThreads

CONSTANTS
  QuoteTTL,        \* market_quote_cache_ttl_seconds
  SimulationTTL,   \* ttl_seconds of a simulated quote, at most
  MaxQuote         \* bound on the published quotes of a symbol

ASSUME QuoteAssumption ==
  /\ QuoteTTL \in Nat \ {0} /\ SimulationTTL \in Nat \ {0}
  /\ MaxQuote \in Nat

VARIABLES
  quotes,     \* the cached quote of each symbol
  published,  \* number of quotes of each symbol Kinesis accepted
  ingest,     \* the trade or quote the ingestor is at
  trading,    \* the quote request of each thread
  behind      \* ghost: symbols whose last published quote was not cached

quoteVars == <<quotes, published, ingest, trading, behind>>

\* The longest a quote from each writer lives in the cache.
TTLOf(from) == IF from = "simulation" THEN SimulationTTL ELSE QuoteTTL

Longest == IF QuoteTTL < SimulationTTL THEN SimulationTTL ELSE QuoteTTL

CachedQuote == {NoCopy} \cup
  [age : 0 .. Longest + MaxHold, left : 1 .. Longest,
   from : {"ingestor", "alpaca", "simulation"}, number : 0 .. MaxQuote]

NoIngest == [at |-> "idle"]
Ingest == {NoIngest} \cup
  [at : {"publish", "cache"}, kind : {"trade", "quote"}, symbol : Symbol,
   number : 0 .. MaxQuote, held : 0 .. MaxHold]

NoTrading == [at |-> "idle"]
Trading == {NoTrading} \cup
  [at : {"read", "fetch", "set", "trade"}, symbol : Symbol,
   age : 0 .. Longest + 2 * MaxHold,    \* of the quote it has
   held : 0 .. MaxHold]

QuoteTypeOK ==
  /\ quotes \in [Symbol -> CachedQuote]
  /\ published \in [Symbol -> 0 .. MaxQuote]
  /\ ingest \in Ingest
  /\ trading \in [Thread -> Trading]
  /\ behind \subseteq Symbol

QuoteInit ==
  /\ quotes = [s \in Symbol |-> NoCopy]
  /\ published = [s \in Symbol |-> 0]
  /\ ingest = NoIngest
  /\ trading = [t \in Thread |-> NoTrading]
  /\ behind = {}

-----------------------------------------------------------------------------
\* The market ingestor service.

\* ingest_trade, ingest_quote: the event is built.
BeginIngest(kind, s) ==
  /\ ingest = NoIngest
  /\ published[s] < MaxQuote
  /\ ingest' = [at |-> "publish", kind |-> kind, symbol |-> s, number |-> 0, held |-> 0]
  /\ UNCHANGED <<quotes, published, trading, behind>>

\* Mutant: the quote is cached although its publication failed.
AfterPublishAlways(ok) ==
  ingest.kind = "quote"

\* Only a published quote goes on to the cache.
AfterPublish(ok) == ok /\ ingest.kind = "quote"

\* put_record: the record may be accepted although the call fails.  The copies of it
\* that the client adds when it resends are one event here: they follow one another
\* and change nothing for the cache.
PublishEvent(accepted, ok) ==
  /\ ingest.at = "publish"
  /\ ok => accepted
  /\ LET s      == ingest.symbol
         number == IF accepted THEN published[s] + 1 ELSE 0
     IN /\ IF accepted /\ ingest.kind = "quote"
           THEN /\ published' = [published EXCEPT ![s] = number]
                /\ behind' = behind \cup {s}
           ELSE UNCHANGED <<published, behind>>
        /\ ingest' = IF AfterPublish(ok)
                     THEN [ingest EXCEPT !.at = "cache", !.number = number]
                     ELSE NoIngest
  /\ UNCHANGED <<quotes, trading>>

\* _update_quote_cache: an exception is logged and the ingestion succeeded.
CacheIngested(done) ==
  /\ ingest.at = "cache"
  /\ IF done
     THEN /\ quotes' = [quotes EXCEPT ![ingest.symbol] =
               [age |-> ingest.held, left |-> QuoteTTL,
                from |-> "ingestor", number |-> ingest.number]]
          /\ behind' = behind \ {ingest.symbol}
     ELSE UNCHANGED <<quotes, behind>>
  /\ ingest' = NoIngest
  /\ UNCHANGED <<published, trading>>

-----------------------------------------------------------------------------
\* Trading requests and the pending-order worker.

TradingAt(t, stage) == trading[t].at = stage

\* get_quote reads the cache first, refresh_quote does not.
BeginQuote(t, s, stage) ==
  /\ TradingAt(t, "idle")
  /\ trading' = [trading EXCEPT ![t] =
       [at |-> stage, symbol |-> s, age |-> 0, held |-> 0]]
  /\ UNCHANGED <<quotes, published, ingest, behind>>

\* A hit is traded with, whatever its timestamp; a miss goes to Alpaca.
ReadQuote(t) ==
  /\ TradingAt(t, "read")
  /\ LET cached == quotes[trading[t].symbol]
     IN trading' = [trading EXCEPT ![t] =
          IF cached = NoCopy THEN [@ EXCEPT !.at = "fetch"]
          ELSE [@ EXCEPT !.at = "trade", !.age = cached.age]]
  /\ UNCHANGED <<quotes, published, ingest, behind>>

\* A valid answer of Alpaca: both prices positive, the ask not below the bid.
FetchQuote(t) ==
  /\ TradingAt(t, "fetch")
  /\ trading' = [trading EXCEPT ![t].at = "set", ![t].age = 0]
  /\ UNCHANGED <<quotes, published, ingest, behind>>

SetFetched(t) ==
  /\ TradingAt(t, "set")
  /\ quotes' = [quotes EXCEPT ![trading[t].symbol] =
       [age |-> trading[t].age, left |-> QuoteTTL, from |-> "alpaca", number |-> 0]]
  /\ trading' = [trading EXCEPT ![t].at = "trade"]
  /\ UNCHANGED <<published, ingest, behind>>

\* Redis or Alpaca fails, the answer of Alpaca is no valid quote, or there is no
\* Alpaca to ask: no current quote is available, and nothing is traded.
FailQuote(t) ==
  /\ trading[t].at \in {"read", "fetch", "set"}
  /\ trading' = [trading EXCEPT ![t] = NoTrading]
  /\ UNCHANGED <<quotes, published, ingest, behind>>

\* The order is executed, or not, at the bid or the ask.
UseQuote(t) ==
  /\ TradingAt(t, "trade")
  /\ trading' = [trading EXCEPT ![t] = NoTrading]
  /\ UNCHANGED <<quotes, published, ingest, behind>>

\* The simulation route: a quote with a TTL of its own.
Simulate(s, ttl) ==
  /\ quotes' = [quotes EXCEPT ![s] =
       [age |-> 0, left |-> ttl, from |-> "simulation", number |-> 0]]
  /\ UNCHANGED <<published, ingest, trading, behind>>

\* Time passes; neither a request nor an ingestion takes longer than MaxHold.
QuoteTick ==
  /\ \A t \in Thread : ~TradingAt(t, "idle") => trading[t].held < MaxHold
  /\ ingest # NoIngest => ingest.held < MaxHold
  /\ quotes' = [s \in Symbol |-> Aged(quotes[s])]
  /\ ingest' = IF ingest = NoIngest THEN NoIngest ELSE [ingest EXCEPT !.held = @ + 1]
  /\ trading' = [t \in Thread |->
       IF TradingAt(t, "idle") THEN NoTrading
       ELSE [trading[t] EXCEPT !.held = @ + 1,
               !.age = IF trading[t].at \in {"set", "trade"} THEN @ + 1 ELSE @]]
  /\ UNCHANGED <<published, behind>>

QuoteNext ==
  \/ \E kind \in {"trade", "quote"}, s \in Symbol : BeginIngest(kind, s)
  \/ \E accepted, ok \in BOOLEAN : PublishEvent(accepted, ok)
  \/ \E done \in BOOLEAN : CacheIngested(done)
  \/ \E t \in Thread :
       \/ \E s \in Symbol, stage \in {"read", "fetch"} : BeginQuote(t, s, stage)
       \/ ReadQuote(t) \/ FetchQuote(t) \/ SetFetched(t) \/ FailQuote(t) \/ UseQuote(t)
  \/ \E s \in Symbol, ttl \in 1 .. SimulationTTL : Simulate(s, ttl)
  \/ QuoteTick

QuoteSpec == QuoteInit /\ [][QuoteNext]_quoteVars

-----------------------------------------------------------------------------

\* "Latest quotes are written to Redis only after Kinesis publication succeeds"
\* (service.py 28-29): a quote of the ingestor in the cache was published, and it
\* is the newest one published of its symbol, unless the call that published a
\* newer one, or its SET, failed or is not done.
FollowsStream(s) ==
  quotes[s] # NoCopy /\ quotes[s].from = "ingestor" =>
    /\ quotes[s].number \in 1 .. published[s]
    /\ quotes[s].number < published[s] => s \in behind

\* However the writers of a symbol interleave, the cache holds a quote no longer
\* than its TTL after a request that was no longer than MaxHold in writing it.
CopiesAgeBounded ==
  \A s \in Symbol : quotes[s] # NoCopy =>
    quotes[s].age + quotes[s].left <= TTLOf(quotes[s].from) + MaxHold

\* An order trades at a quote that was supplied at most the longest TTL and the
\* durations of two requests ago, and the cache follows the stream of the ingestor
\* (market_quote_cache.py 76-153, service.py 67-120).
TradedQuotesCurrent ==
  /\ CopiesAgeBounded
  /\ \A t \in Thread : TradingAt(t, "trade") =>
       trading[t].age <= Longest + MaxHold - 1 + trading[t].held
  /\ \A s \in Symbol : FollowsStream(s)
=============================================================================
