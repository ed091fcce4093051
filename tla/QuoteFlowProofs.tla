---------------------------- MODULE QuoteFlowProofs ----------------------------
(***************************************************************************)
(* Theorems about QuoteFlow, for every number of trading threads, symbols  *)
(* and published quotes, every TTL and every bound on the requests; and    *)
(* about MarketRunner, for every mode and limit of the process.            *)
(***************************************************************************)
EXTENDS QuoteFlow, MarketRunner, TLAPS

\* A cached quote of a symbol: it is as old as its TTL allows, and the ingestor's
\* was published and is the newest one unless the symbol is behind.
CachedOK(q, number, isBehind) ==
  q # NoCopy =>
    /\ q.age + q.left <= TTLOf(q.from) + MaxHold
    /\ q.from = "ingestor" => q.number \in 1 .. number /\ (q.number < number => isBehind)

\* The quote the ingestor is about to cache is the last one it published.
IngestOK ==
  /\ ingest.at = "publish" => published[ingest.symbol] < MaxQuote
  /\ ingest.at = "cache" =>
       /\ ingest.number = published[ingest.symbol] /\ ingest.number > 0
       /\ ingest.symbol \in behind

\* What a trading request fetched is as old as the request at most, and so is, with
\* a TTL and the duration of another, what it trades at.
TradeOK(b) ==
  /\ b.at \in {"set", "fetch", "read"} => b.age <= b.held
  /\ b.at = "trade" => b.age <= Longest + MaxHold - 1 + b.held

QuoteInv ==
  /\ QuoteTypeOK
  /\ \A s \in Symbol : CachedOK(quotes[s], published[s], s \in behind)
  /\ IngestOK
  /\ \A t \in Thread : TradeOK(trading[t])

-----------------------------------------------------------------------------

LEMMA QuoteConstants ==
  /\ QuoteTTL \in Nat \ {0} /\ SimulationTTL \in Nat \ {0}
  /\ MaxQuote \in Nat /\ MaxHold \in Nat
  /\ Longest \in Nat \ {0} /\ QuoteTTL <= Longest /\ SimulationTTL <= Longest
  /\ \A from \in STRING : TTLOf(from) \in {QuoteTTL, SimulationTTL}
BY QuoteAssumption, ThreadAssumption DEF Longest, TTLOf

LEMMA CachedFields ==
  ASSUME NEW q \in CachedQuote, q # NoCopy
  PROVE  /\ q = [age |-> q.age, left |-> q.left, from |-> q.from, number |-> q.number]
         /\ q.age \in 0 .. Longest + MaxHold /\ q.left \in 1 .. Longest
         /\ q.from \in {"ingestor", "alpaca", "simulation"} /\ q.number \in 0 .. MaxQuote
BY DEF CachedQuote

LEMMA IngestFields ==
  ASSUME NEW i \in Ingest, i # NoIngest
  PROVE  /\ i = [at |-> i.at, kind |-> i.kind, symbol |-> i.symbol, number |-> i.number,
                 held |-> i.held]
         /\ i.at \in {"publish", "cache"} /\ i.kind \in {"trade", "quote"}
         /\ i.symbol \in Symbol /\ i.number \in 0 .. MaxQuote /\ i.held \in 0 .. MaxHold
BY DEF Ingest

LEMMA TradingFields ==
  ASSUME NEW b \in Trading, b.at # "idle"
  PROVE  /\ b = [at |-> b.at, symbol |-> b.symbol, age |-> b.age, held |-> b.held]
         /\ b.at \in {"read", "fetch", "set", "trade"} /\ b.symbol \in Symbol
         /\ b.age \in 0 .. Longest + 2 * MaxHold /\ b.held \in 0 .. MaxHold
BY DEF Trading, NoTrading

\* A request with some fields changed.
LEMMA TradingMoved ==
  ASSUME NEW b \in Trading, b.at # "idle", NEW stage
  PROVE  [b EXCEPT !.at = stage] =
           [at |-> stage, symbol |-> b.symbol, age |-> b.age, held |-> b.held]
BY TradingFields

LEMMA TradingRead ==
  ASSUME NEW b \in Trading, b.at # "idle", NEW stage, NEW age
  PROVE  [b EXCEPT !.at = stage, !.age = age] =
           [at |-> stage, symbol |-> b.symbol, age |-> age, held |-> b.held]
<1> DEFINE c == [b EXCEPT !.at = stage]
<1>1. [b EXCEPT !.at = stage, !.age = age] = [c EXCEPT !.age = age]
  OBVIOUS
<1>2. c = [at |-> stage, symbol |-> b.symbol, age |-> b.age, held |-> b.held]
  BY TradingFields
<1> HIDE DEF c
<1> QED
  BY <1>1, <1>2

LEMMA TradingAged ==
  ASSUME NEW b \in Trading, b.at # "idle", NEW held, NEW age
  PROVE  [b EXCEPT !.held = held, !.age = age] =
           [at |-> b.at, symbol |-> b.symbol, age |-> age, held |-> held]
<1> DEFINE c == [b EXCEPT !.held = held]
<1>1. [b EXCEPT !.held = held, !.age = age] = [c EXCEPT !.age = age]
  OBVIOUS
<1>2. c = [at |-> b.at, symbol |-> b.symbol, age |-> b.age, held |-> held]
  BY TradingFields
<1> HIDE DEF c
<1> QED
  BY <1>1, <1>2

\* The step of one trading thread leaves the ingestor alone.
LEMMA TradingStep ==
  ASSUME QuoteInv, NEW t \in Thread, NEW b \in Trading, TradeOK(b),
         trading' = [trading EXCEPT ![t] = b],
         UNCHANGED <<published, ingest, behind>>, quotes' \in [Symbol -> CachedQuote],
         \A s \in Symbol : CachedOK(quotes'[s], published[s], s \in behind)
  PROVE  QuoteInv'
<1>1. QuoteTypeOK'
  BY DEF QuoteInv, QuoteTypeOK, CachedQuote, Ingest, Trading, NoTrading, NoIngest
<1>2. \A s \in Symbol : CachedOK(quotes'[s], published'[s], s \in behind')
  OBVIOUS
<1>3. IngestOK'
  BY DEF QuoteInv, IngestOK
<1>4. \A o \in Thread : TradeOK(trading'[o])
  BY DEF QuoteInv, QuoteTypeOK
<1> QED
  BY <1>1, <1>2, <1>3, <1>4 DEF QuoteInv, CachedOK, TradeOK

\* A write of the cache.
LEMMA Cached ==
  ASSUME QuoteInv, NEW s \in Symbol, NEW q \in CachedQuote, NEW unmet \in SUBSET Symbol,
         CachedOK(q, published[s], s \in unmet), behind \ {s} \subseteq unmet,
         quotes' = [quotes EXCEPT ![s] = q]
  PROVE  /\ quotes' \in [Symbol -> CachedQuote]
         /\ \A r \in Symbol : CachedOK(quotes'[r], published[r], r \in unmet)
<1>1. quotes \in [Symbol -> CachedQuote]
  BY DEF QuoteInv, QuoteTypeOK
<1>2. ASSUME NEW r \in Symbol, r # s
      PROVE  CachedOK(quotes[r], published[r], r \in unmet)
  BY <1>2 DEF QuoteInv, CachedOK
<1> QED
  BY <1>1, <1>2

-----------------------------------------------------------------------------
(* One lemma per action.                                                    *)

LEMMA BeginIngestStep ==
  ASSUME QuoteInv, NEW kind \in {"trade", "quote"}, NEW s \in Symbol, BeginIngest(kind, s)
  PROVE  QuoteInv'
<1>1. ingest' \in Ingest /\ ingest'.at = "publish" /\ ingest'.symbol = s
  BY QuoteConstants DEF BeginIngest, Ingest
<1> QED
  BY <1>1 DEF BeginIngest, QuoteInv, QuoteTypeOK, IngestOK, CachedOK, TradeOK

\* An accepted quote makes its symbol behind, and the ingestor caches it next, if at all.
LEMMA PublishStep ==
  ASSUME QuoteInv, NEW accepted \in BOOLEAN, NEW ok \in BOOLEAN, PublishEvent(accepted, ok)
  PROVE  QuoteInv'
<1> DEFINE s == ingest.symbol
           number == IF accepted THEN published[s] + 1 ELSE 0
<1>1. /\ ingest \in Ingest /\ ingest # NoIngest /\ ingest.at = "publish"
      /\ (ok => accepted) /\ UNCHANGED <<quotes, trading>>
  BY DEF PublishEvent, QuoteInv, QuoteTypeOK, NoIngest
<1>2. /\ s \in Symbol /\ ingest.kind \in {"trade", "quote"} /\ ingest.held \in 0 .. MaxHold
      /\ ingest = [at |-> ingest.at, kind |-> ingest.kind, symbol |-> s,
                   number |-> ingest.number, held |-> ingest.held]
  BY <1>1, IngestFields
<1>3. /\ published \in [Symbol -> 0 .. MaxQuote] /\ published[s] < MaxQuote
      /\ quotes \in [Symbol -> CachedQuote] /\ trading \in [Thread -> Trading]
      /\ behind \subseteq Symbol
      /\ \A r \in Symbol : CachedOK(quotes[r], published[r], r \in behind)
      /\ \A t \in Thread : TradeOK(trading[t])
  BY <1>1 DEF QuoteInv, QuoteTypeOK, IngestOK
<1>4. /\ published' \in [Symbol -> 0 .. MaxQuote] /\ behind' \subseteq Symbol
      /\ \A r \in Symbol : CachedOK(quotes[r], published'[r], r \in behind')
      /\ accepted /\ ingest.kind = "quote" =>
           published'[s] = published[s] + 1 /\ s \in behind'
  <2>1. CASE accepted /\ ingest.kind = "quote"
    <3>1. /\ published' = [published EXCEPT ![s] = published[s] + 1]
          /\ behind' = behind \cup {s}
      BY <2>1 DEF PublishEvent
    <3>2. published[s] + 1 \in 0 .. MaxQuote
      BY <1>2, <1>3, QuoteConstants
    <3>3. ASSUME NEW r \in Symbol
          PROVE  CachedOK(quotes[r], published'[r], r \in behind')
      <4>1. CachedOK(quotes[r], published[r], r \in behind) /\ quotes[r] \in CachedQuote
            /\ published[r] \in 0 .. MaxQuote
        BY <1>3
      <4>2. quotes[r] # NoCopy => quotes[r].number \in Nat
        BY <4>1, CachedFields, QuoteConstants
      <4>3. published'[r] = (IF r = s THEN published[r] + 1 ELSE published[r])
            /\ (r \in behind' <=> r = s \/ r \in behind)
        BY <3>1, <1>3
      <4> QED
        BY <4>1, <4>2, <4>3, QuoteConstants DEF CachedOK
    <3> QED
      BY <1>2, <1>3, <3>1, <3>2, <3>3
  <2>2. CASE ~(accepted /\ ingest.kind = "quote")
    <3>1. UNCHANGED <<published, behind>>
      BY <2>2 DEF PublishEvent
    <3> QED
      BY <1>3, <2>2, <3>1
  <2> QED
    BY <2>1, <2>2
<1>5. ingest' \in Ingest /\ IngestOK'
  <2>1. CASE AfterPublish(ok)
    <3>1. accepted /\ ingest.kind = "quote" /\ number = published[s] + 1
      BY <2>1, <1>1 DEF AfterPublish
    <3>2. ingest' = [ingest EXCEPT !.at = "cache", !.number = number]
      BY <2>1 DEF PublishEvent
    <3> HIDE DEF number
    <3>3. ingest' = [at |-> "cache", kind |-> ingest.kind, symbol |-> s,
                     number |-> number, held |-> ingest.held]
      <4> DEFINE c == [ingest EXCEPT !.at = "cache"]
      <4>1. ingest' = [c EXCEPT !.number = number]
        BY <3>2
      <4>2. c = [at |-> "cache", kind |-> ingest.kind, symbol |-> s,
                 number |-> ingest.number, held |-> ingest.held]
        BY <1>2
      <4> HIDE DEF c
      <4> QED
        BY <4>1, <4>2
    <3>4. number \in 1 .. MaxQuote
      BY <1>2, <1>3, <3>1, QuoteConstants
    <3>5. ingest' \in Ingest
      BY <1>2, <3>3, <3>4 DEF Ingest
    <3> QED
      BY <1>4, <3>1, <3>3, <3>4, <3>5 DEF IngestOK
  <2>2. CASE ~AfterPublish(ok)
    <3>1. ingest' = NoIngest
      BY <2>2 DEF PublishEvent
    <3> QED
      BY <3>1 DEF Ingest, IngestOK, NoIngest
  <2> QED
    BY <2>1, <2>2
<1> HIDE DEF s, number
<1>6. /\ quotes' \in [Symbol -> CachedQuote] /\ trading' \in [Thread -> Trading]
      /\ \A r \in Symbol : CachedOK(quotes'[r], published'[r], r \in behind')
      /\ \A t \in Thread : TradeOK(trading'[t])
  BY <1>1, <1>3, <1>4
<1>7. QuoteTypeOK'
  BY <1>4, <1>5, <1>6 DEF QuoteTypeOK
<1> QED
  BY <1>5, <1>6, <1>7 DEF QuoteInv

LEMMA CacheStep ==
  ASSUME QuoteInv, NEW done \in BOOLEAN, CacheIngested(done)
  PROVE  QuoteInv'
<1>1. /\ ingest \in Ingest /\ ingest # NoIngest /\ ingest.at = "cache"
      /\ ingest.number = published[ingest.symbol] /\ ingest.number > 0
      /\ published \in [Symbol -> 0 .. MaxQuote] /\ behind \subseteq Symbol
  BY DEF CacheIngested, QuoteInv, QuoteTypeOK, IngestOK, NoIngest
<1>2. /\ ingest.symbol \in Symbol /\ ingest.number \in 0 .. MaxQuote
      /\ ingest.held \in 0 .. MaxHold
  BY <1>1, IngestFields
<1>3. ingest' = NoIngest /\ UNCHANGED <<published, trading>>
  BY DEF CacheIngested
<1>4. /\ quotes' \in [Symbol -> CachedQuote]
      /\ \A s \in Symbol : CachedOK(quotes'[s], published[s], s \in behind')
      /\ behind' \subseteq Symbol
  <2> DEFINE q == [age |-> ingest.held, left |-> QuoteTTL,
                   from |-> "ingestor", number |-> ingest.number]
  <2>1. CASE done
    <3>1. quotes' = [quotes EXCEPT ![ingest.symbol] = q] /\ behind' = behind \ {ingest.symbol}
      BY <2>1 DEF CacheIngested
    <3>2. q \in CachedQuote
      BY <1>1, <1>2, QuoteConstants DEF CachedQuote
    <3>3. CachedOK(q, published[ingest.symbol], ingest.symbol \in behind')
      BY <1>1, <1>2, QuoteConstants DEF CachedOK, TTLOf
    <3>4. behind' \subseteq Symbol /\ behind \ {ingest.symbol} \subseteq behind'
      BY <1>1, <3>1
    <3> HIDE DEF q
    <3>5. /\ quotes' \in [Symbol -> CachedQuote]
          /\ \A s \in Symbol : CachedOK(quotes'[s], published[s], s \in behind')
      <4> DEFINE unmet == behind'
      <4>1. /\ unmet \in SUBSET Symbol /\ behind \ {ingest.symbol} \subseteq unmet
            /\ CachedOK(q, published[ingest.symbol], ingest.symbol \in unmet)
        BY <3>3, <3>4
      <4> HIDE DEF unmet
      <4>2. /\ quotes' \in [Symbol -> CachedQuote]
            /\ \A s \in Symbol : CachedOK(quotes'[s], published[s], s \in unmet)
        BY <1>2, <3>1, <3>2, <4>1, Cached
      <4> QED
        BY <4>2 DEF unmet
    <3> QED
      BY <3>4, <3>5
  <2>2. CASE ~done
    BY <2>2, <1>1 DEF CacheIngested, QuoteInv, QuoteTypeOK
  <2> QED
    BY <2>1, <2>2
<1>5. QuoteTypeOK'
  BY <1>3, <1>4 DEF QuoteInv, QuoteTypeOK, Ingest
<1>6. IngestOK'
  BY <1>3 DEF IngestOK, NoIngest
<1> QED
  BY <1>3, <1>4, <1>5, <1>6 DEF QuoteInv, CachedOK, TradeOK

LEMMA BeginQuoteStep ==
  ASSUME QuoteInv, NEW t \in Thread, NEW s \in Symbol, NEW stage \in {"read", "fetch"},
         BeginQuote(t, s, stage)
  PROVE  QuoteInv'
<1> DEFINE b == [at |-> stage, symbol |-> s, age |-> 0, held |-> 0]
<1>1. b \in Trading /\ TradeOK(b)
  BY QuoteConstants DEF Trading, TradeOK
<1>2. trading' = [trading EXCEPT ![t] = b]
      /\ UNCHANGED <<quotes, published, ingest, behind>>
  BY DEF BeginQuote
<1> HIDE DEF b
<1> QED
  BY <1>1, <1>2, TradingStep DEF QuoteInv, QuoteTypeOK

\* What a thread about to move knows.
LEMMA TradingOf ==
  ASSUME QuoteInv, NEW t \in Thread, trading[t].at # "idle"
  PROVE  /\ trading[t] \in Trading /\ TradeOK(trading[t])
         /\ trading[t].symbol \in Symbol
         /\ trading[t].age \in 0 .. Longest + 2 * MaxHold /\ trading[t].held \in 0 .. MaxHold
<1>1. trading[t] \in Trading /\ TradeOK(trading[t])
  BY DEF QuoteInv, QuoteTypeOK
<1> QED
  BY <1>1, TradingFields

LEMMA ReadQuoteStep ==
  ASSUME QuoteInv, NEW t \in Thread, ReadQuote(t)
  PROVE  QuoteInv'
<1> DEFINE q == quotes[trading[t].symbol]
<1>b. trading[t].at = "read"
  BY DEF ReadQuote, TradingAt
<1>1. /\ trading[t] \in Trading /\ trading[t].symbol \in Symbol
      /\ trading[t].age \in 0 .. Longest + 2 * MaxHold /\ trading[t].held \in 0 .. MaxHold
      /\ TradeOK(trading[t])
  BY <1>b, TradingOf
<1>2. UNCHANGED <<quotes, published, ingest, behind>>
  BY DEF ReadQuote
<1>3. CASE q = NoCopy
  <2> DEFINE b == [trading[t] EXCEPT !.at = "fetch"]
  <2>1. b = [at |-> "fetch", symbol |-> trading[t].symbol, age |-> trading[t].age,
             held |-> trading[t].held]
    BY <1>1, <1>b, TradingMoved
  <2>2. b \in Trading /\ TradeOK(b)
    BY <2>1, <1>1, <1>b DEF Trading, TradeOK
  <2>3. trading' = [trading EXCEPT ![t] = b]
    BY <1>3 DEF ReadQuote
  <2> HIDE DEF b
  <2> QED
    BY <1>2, <2>2, <2>3, TradingStep DEF QuoteInv, QuoteTypeOK
<1>4. CASE q # NoCopy
  <2> DEFINE b == [trading[t] EXCEPT !.at = "trade", !.age = q.age]
  <2>q. /\ q \in CachedQuote /\ q.age + q.left <= TTLOf(q.from) + MaxHold
        /\ TTLOf(q.from) <= Longest
        /\ q.age \in 0 .. Longest + MaxHold /\ q.left \in 1 .. Longest
    <3>1. q \in CachedQuote /\ q.age + q.left <= TTLOf(q.from) + MaxHold
      BY <1>1, <1>4 DEF QuoteInv, QuoteTypeOK, CachedOK
    <3> HIDE DEF q
    <3> QED
      BY <1>4, <3>1, CachedFields, QuoteConstants DEF TTLOf
  <2>1. b = [at |-> "trade", symbol |-> trading[t].symbol, age |-> q.age,
             held |-> trading[t].held]
    <3> HIDE DEF q
    <3> QED
      BY <1>1, <1>b, TradingRead
  <2>a. q.age \in 0 .. Longest + MaxHold - 1
    <3>1. TTLOf(q.from) \in Nat
      BY <2>q, CachedFields, QuoteConstants DEF TTLOf
    <3> HIDE DEF q
    <3> QED
      BY <2>q, <3>1, QuoteConstants
  <2>2. b \in Trading /\ TradeOK(b)
    <3> HIDE DEF q, b
    <3>1. b \in Trading
      BY <2>1, <2>a, <1>1, QuoteConstants DEF Trading
    <3>2. TradeOK(b)
      BY <2>1, <2>a, <1>1, QuoteConstants DEF TradeOK
    <3> QED
      BY <3>1, <3>2
  <2>3. trading' = [trading EXCEPT ![t] = b]
    BY <1>4 DEF ReadQuote
  <2> HIDE DEF b
  <2> QED
    BY <1>2, <2>2, <2>3, TradingStep DEF QuoteInv, QuoteTypeOK
<1> QED
  BY <1>3, <1>4

LEMMA FetchQuoteStep ==
  ASSUME QuoteInv, NEW t \in Thread, FetchQuote(t)
  PROVE  QuoteInv'
<1> DEFINE b == [trading[t] EXCEPT !.at = "set", !.age = 0]
<1>b. trading[t].at = "fetch"
  BY DEF FetchQuote, TradingAt
<1>1. trading[t] \in Trading /\ trading[t].symbol \in Symbol /\ trading[t].held \in 0 .. MaxHold
  BY <1>b, TradingOf
<1>2. b = [at |-> "set", symbol |-> trading[t].symbol, age |-> 0, held |-> trading[t].held]
  BY <1>1, <1>b, TradingRead
<1>3. b \in Trading /\ TradeOK(b)
  <2> HIDE DEF b
  <2> QED
    BY <1>1, <1>2, QuoteConstants DEF Trading, TradeOK
<1>4. trading' = [trading EXCEPT ![t] = b] /\ UNCHANGED <<quotes, published, ingest, behind>>
  BY DEF FetchQuote, QuoteInv, QuoteTypeOK
<1> HIDE DEF b
<1> QED
  BY <1>3, <1>4, TradingStep DEF QuoteInv, QuoteTypeOK

LEMMA SetFetchedStep ==
  ASSUME QuoteInv, NEW t \in Thread, SetFetched(t)
  PROVE  QuoteInv'
<1> DEFINE b == [trading[t] EXCEPT !.at = "trade"]
           q == [age |-> trading[t].age, left |-> QuoteTTL, from |-> "alpaca", number |-> 0]
<1>b. trading[t].at = "set"
  BY DEF SetFetched, TradingAt
<1>1. /\ trading[t] \in Trading /\ trading[t].symbol \in Symbol
      /\ trading[t].age \in 0 .. Longest + 2 * MaxHold /\ trading[t].held \in 0 .. MaxHold
      /\ trading[t].age <= trading[t].held
  BY <1>b, TradingOf DEF TradeOK
<1>2. b = [at |-> "trade", symbol |-> trading[t].symbol, age |-> trading[t].age,
           held |-> trading[t].held]
  BY <1>1, <1>b, TradingMoved
<1>3. b \in Trading /\ TradeOK(b)
  BY <1>1, <1>2, QuoteConstants DEF Trading, TradeOK
<1>4. q \in CachedQuote /\ CachedOK(q, published[trading[t].symbol], trading[t].symbol \in behind)
  BY <1>1, QuoteConstants DEF CachedQuote, CachedOK, TTLOf
<1>5. trading' = [trading EXCEPT ![t] = b] /\ UNCHANGED <<published, ingest, behind>>
      /\ quotes' = [quotes EXCEPT ![trading[t].symbol] = q]
  BY DEF SetFetched, QuoteInv, QuoteTypeOK
<1> HIDE DEF b, q
<1>6. /\ quotes' \in [Symbol -> CachedQuote]
      /\ \A s \in Symbol : CachedOK(quotes'[s], published[s], s \in behind)
  BY <1>1, <1>4, <1>5, Cached DEF QuoteInv, QuoteTypeOK
<1> QED
  BY <1>3, <1>5, <1>6, TradingStep

LEMMA EndQuoteStep ==
  ASSUME QuoteInv, NEW t \in Thread, FailQuote(t) \/ UseQuote(t)
  PROVE  QuoteInv'
<1>1. NoTrading \in Trading /\ TradeOK(NoTrading)
  BY DEF Trading, TradeOK, NoTrading
<1>2. trading' = [trading EXCEPT ![t] = NoTrading]
      /\ UNCHANGED <<quotes, published, ingest, behind>>
  BY DEF FailQuote, UseQuote
<1> QED
  BY <1>1, <1>2, TradingStep DEF QuoteInv, QuoteTypeOK

LEMMA SimulateStep ==
  ASSUME QuoteInv, NEW s \in Symbol, NEW ttl \in 1 .. SimulationTTL, Simulate(s, ttl)
  PROVE  QuoteInv'
<1> DEFINE q == [age |-> 0, left |-> ttl, from |-> "simulation", number |-> 0]
<1>1. q \in CachedQuote /\ CachedOK(q, published[s], s \in behind)
  BY QuoteConstants DEF CachedQuote, CachedOK, TTLOf
<1>2. quotes' = [quotes EXCEPT ![s] = q] /\ UNCHANGED <<published, ingest, trading, behind>>
  BY DEF Simulate
<1> HIDE DEF q
<1>3. /\ quotes' \in [Symbol -> CachedQuote]
      /\ \A r \in Symbol : CachedOK(quotes'[r], published[r], r \in behind)
  BY <1>1, <1>2, Cached DEF QuoteInv, QuoteTypeOK
<1>4. QuoteTypeOK'
  BY <1>2, <1>3 DEF QuoteInv, QuoteTypeOK
<1> QED
  BY <1>2, <1>3, <1>4 DEF QuoteInv, IngestOK, TradeOK, CachedOK

LEMMA QuoteTickStep ==
  ASSUME QuoteInv, QuoteTick
  PROVE  QuoteInv'
<1>1. UNCHANGED <<published, behind>> /\ published \in [Symbol -> 0 .. MaxQuote]
      /\ behind \subseteq Symbol
  BY DEF QuoteTick, QuoteInv, QuoteTypeOK
<1>2. ASSUME NEW s \in Symbol
      PROVE  quotes'[s] \in CachedQuote /\ CachedOK(quotes'[s], published[s], s \in behind)
  <2>1. quotes[s] \in CachedQuote /\ CachedOK(quotes[s], published[s], s \in behind)
        /\ quotes'[s] = Aged(quotes[s])
    BY DEF QuoteInv, QuoteTypeOK, QuoteTick
  <2>2. CASE quotes[s].left <= 1
    BY <2>1, <2>2 DEF Aged, CachedQuote, CachedOK
  <2>3. CASE ~(quotes[s].left <= 1)
    <3>1. quotes[s] # NoCopy
      BY <2>3 DEF NoCopy
    <3>2. /\ quotes[s] = [age |-> quotes[s].age, left |-> quotes[s].left,
                          from |-> quotes[s].from, number |-> quotes[s].number]
          /\ quotes[s].age \in 0 .. Longest + MaxHold /\ quotes[s].left \in 1 .. Longest
          /\ quotes[s].from \in {"ingestor", "alpaca", "simulation"}
          /\ quotes[s].number \in 0 .. MaxQuote
      BY <2>1, <3>1, CachedFields
    <3>3. quotes'[s] = [age |-> quotes[s].age + 1, left |-> quotes[s].left - 1,
                        from |-> quotes[s].from, number |-> quotes[s].number]
      <4> DEFINE c == [quotes[s] EXCEPT !.age = quotes[s].age + 1]
      <4>1. quotes'[s] = [c EXCEPT !.left = quotes[s].left - 1]
        BY <2>1, <2>3 DEF Aged
      <4>2. c = [age |-> quotes[s].age + 1, left |-> quotes[s].left,
                 from |-> quotes[s].from, number |-> quotes[s].number]
        BY <3>2
      <4> HIDE DEF c
      <4> QED
        BY <4>1, <4>2
    <3>4. quotes[s].age + quotes[s].left <= TTLOf(quotes[s].from) + MaxHold
          /\ TTLOf(quotes[s].from) \in Nat /\ TTLOf(quotes[s].from) <= Longest
      BY <2>1, <3>1, <3>2, QuoteConstants DEF CachedOK, TTLOf
    <3>5. quotes[s].age + 1 \in 0 .. Longest + MaxHold /\ quotes[s].left - 1 \in 1 .. Longest
      BY <2>3, <3>2, <3>4, QuoteConstants
    <3>6. quotes'[s] \in CachedQuote
      BY <3>2, <3>3, <3>5 DEF CachedQuote
    <3>7. CachedOK(quotes'[s], published[s], s \in behind)
      BY <2>1, <3>1, <3>2, <3>3, <3>4, QuoteConstants DEF CachedOK
    <3> QED
      BY <3>6, <3>7
  <2> QED
    BY <2>2, <2>3
<1>3. ingest' \in Ingest /\ IngestOK'
  <2>1. ingest \in Ingest /\ IngestOK
    BY DEF QuoteInv, QuoteTypeOK
  <2>2. CASE ingest = NoIngest
    BY <2>1, <2>2 DEF QuoteTick, IngestOK, NoIngest
  <2>3. CASE ingest # NoIngest
    <3>1. ingest' = [ingest EXCEPT !.held = ingest.held + 1] /\ ingest.held < MaxHold
      BY <2>3 DEF QuoteTick
    <3>2. ingest' = [at |-> ingest.at, kind |-> ingest.kind, symbol |-> ingest.symbol,
                     number |-> ingest.number, held |-> ingest.held + 1]
      BY <2>1, <2>3, <3>1, IngestFields
    <3>3. ingest.held + 1 \in 0 .. MaxHold
      BY <2>1, <2>3, <3>1, IngestFields, QuoteConstants
    <3>4. ingest' \in Ingest
      BY <2>1, <2>3, <3>2, <3>3, IngestFields DEF Ingest
    <3> QED
      BY <1>1, <2>1, <3>2, <3>4 DEF IngestOK
  <2> QED
    BY <2>2, <2>3
<1>4. ASSUME NEW t \in Thread
      PROVE  trading'[t] \in Trading /\ TradeOK(trading'[t])
  <2>1. CASE TradingAt(t, "idle")
    BY <2>1 DEF QuoteTick, Trading, TradeOK, NoTrading
  <2>2. CASE ~TradingAt(t, "idle")
    <3>0. trading[t].at # "idle" /\ trading[t].held < MaxHold
      BY <2>2 DEF TradingAt, QuoteTick
    <3>1. /\ trading[t] \in Trading /\ TradeOK(trading[t])
          /\ trading[t].symbol \in Symbol /\ trading[t].held \in 0 .. MaxHold
          /\ trading[t].age \in 0 .. Longest + 2 * MaxHold
          /\ trading[t].at \in {"read", "fetch", "set", "trade"}
      BY <3>0, TradingOf, TradingFields
    <3>2. PICK age :
            age = IF trading[t].at \in {"set", "trade"} THEN trading[t].age + 1
                  ELSE trading[t].age
      OBVIOUS
    <3>3. trading'[t] = [trading[t] EXCEPT !.held = trading[t].held + 1, !.age = age]
      BY <2>2, <3>2 DEF QuoteTick
    <3>4. trading'[t] = [at |-> trading[t].at, symbol |-> trading[t].symbol, age |-> age,
                         held |-> trading[t].held + 1]
      BY <3>0, <3>1, <3>3, TradingAged, ZenonT(60)
    <3>5. /\ trading[t].held + 1 \in 0 .. MaxHold
          /\ trading[t].at \in {"set", "fetch", "read"} => age <= trading[t].held + 1
          /\ trading[t].at = "trade" => age <= Longest + MaxHold - 1 + (trading[t].held + 1)
          /\ age \in Nat
      BY <3>0, <3>1, <3>2, QuoteConstants DEF TradeOK
    <3>6. age \in 0 .. Longest + 2 * MaxHold
      BY <3>1, <3>5, QuoteConstants
    <3> QED
      BY <3>1, <3>4, <3>5, <3>6 DEF Trading, TradeOK
  <2> QED
    BY <2>1, <2>2
<1>5. quotes' \in [Symbol -> CachedQuote] /\ trading' \in [Thread -> Trading]
  BY <1>2, <1>4 DEF QuoteTick
<1>6. QuoteTypeOK'
  BY <1>1, <1>3, <1>5 DEF QuoteTypeOK, Ingest, CachedQuote, Trading
<1> QED
  BY <1>1, <1>2, <1>3, <1>4, <1>6 DEF QuoteInv, CachedOK, TradeOK

LEMMA QuoteInitial ==
  ASSUME QuoteInit
  PROVE  QuoteInv
<1>1. QuoteTypeOK
  BY QuoteConstants DEF QuoteInit, QuoteTypeOK, CachedQuote, Ingest, Trading
<1> QED
  BY <1>1 DEF QuoteInit, QuoteInv, CachedOK, IngestOK, NoIngest, TradeOK, NoTrading

LEMMA QuoteInductive ==
  ASSUME QuoteInv, [QuoteNext]_quoteVars
  PROVE  QuoteInv'
<1>1. CASE UNCHANGED quoteVars
  BY <1>1 DEF quoteVars, QuoteInv, QuoteTypeOK, CachedOK, IngestOK, TradeOK
<1>2. CASE QuoteTick
  BY <1>2, QuoteTickStep
<1>3. CASE \/ \E kind \in {"trade", "quote"}, s \in Symbol : BeginIngest(kind, s)
           \/ \E accepted, ok \in BOOLEAN : PublishEvent(accepted, ok)
           \/ \E done \in BOOLEAN : CacheIngested(done)
  BY <1>3, BeginIngestStep, PublishStep, CacheStep
<1>4. ASSUME NEW t \in Thread,
             \/ \E s \in Symbol, stage \in {"read", "fetch"} : BeginQuote(t, s, stage)
             \/ ReadQuote(t) \/ FetchQuote(t) \/ SetFetched(t) \/ FailQuote(t) \/ UseQuote(t)
      PROVE  QuoteInv'
  BY <1>4, BeginQuoteStep, ReadQuoteStep, FetchQuoteStep, SetFetchedStep, EndQuoteStep
<1>5. CASE \E s \in Symbol, ttl \in 1 .. SimulationTTL : Simulate(s, ttl)
  BY <1>5, SimulateStep
<1> QED
  BY <1>1, <1>2, <1>3, <1>4, <1>5 DEF QuoteNext

LEMMA QuoteInvariance == QuoteSpec => []QuoteInv
<1>1. QuoteInit => QuoteInv
  BY QuoteInitial
<1>2. QuoteInv /\ [QuoteNext]_quoteVars => QuoteInv'
  BY QuoteInductive
<1> QED
  BY <1>1, <1>2, PTL DEF QuoteSpec

-----------------------------------------------------------------------------

\* The cache, the ingestor and the trading requests keep the types the code gives
\* them (market_quote_cache.py, service.py 23-120, alpaca_quote_provider.py).
THEOREM QuotesTyped == QuoteSpec => []QuoteTypeOK
<1>1. QuoteInv => QuoteTypeOK
  BY DEF QuoteInv
<1> QED
  BY <1>1, QuoteInvariance, PTL

\* However writers of the cache interleave, an order trades at a quote no older than
\* the longest TTL and the durations of two requests, and the cache is behind the
\* stream of the ingestor only after a failure (service.py 67-120).
THEOREM QuotesCurrent == QuoteSpec => []TradedQuotesCurrent
<1>1. QuoteInv => CopiesAgeBounded
  BY DEF QuoteInv, CachedOK, CopiesAgeBounded
<1>2. QuoteInv => \A t \in Thread : TradingAt(t, "trade") =>
               trading[t].age <= Longest + MaxHold - 1 + trading[t].held
  BY DEF QuoteInv, TradeOK, TradingAt
<1>3. QuoteInv => \A s \in Symbol : FollowsStream(s)
  BY DEF QuoteInv, CachedOK, FollowsStream
<1>4. QuoteInv => TradedQuotesCurrent
  BY <1>1, <1>2, <1>3 DEF TradedQuotesCurrent
<1> QED
  BY <1>4, QuoteInvariance, PTL

-----------------------------------------------------------------------------

Events == sent["trade"] + sent["quote"]

\* Requests, or repeats, that the events of the calls before this one may have cost.
Spare(events) == (Attempts - 1) * events

\* Between two events every one is counted; an event about to be published fits
\* into max_events; it is its kind's turn; and it is the first since a signal.
CountInv ==
  /\ IF LoopAt("publish")
     THEN /\ count < MaxEvents /\ (config.max > 0 => count < config.max)
          /\ Events = IF landed THEN count + 1 ELSE count
          /\ late <= 1 /\ (late = 1 => landed /\ stop)
     ELSE /\ Events = count \/ (LoopAt("failed") /\ landed /\ Events = count + 1)
          /\ config.max > 0 => Events <= config.max
          /\ late <= 1 /\ (LoopAt("check") \/ LoopAt("wait") => late = 0)
          /\ LoopAt("published") => (late = 0 \/ stop)
  /\ LoopAt("publish") \/ tries = 0

\* The repeats of the call in progress are among its requests so far.
RepeatInv ==
  IF LoopAt("publish") /\ landed
  THEN 1 <= tries /\ repeats + 1 <= Spare(Events - 1) + tries
  ELSE repeats <= Spare(Events)

\* Whose turn it is: the kind of the event in progress is settled before it lands.
Balanced == sent["trade"] = sent["quote"]

TurnInv ==
  config.mode = "both" =>
    /\ sent["trade"] - sent["quote"] \in {0, 1}
    /\ LoopAt("publish") =>
         /\ tradeNext <=> loop.kind = "quote"
         /\ loop.kind = "trade" <=> (Balanced <=> ~landed)
    /\ loop.at \in {"check", "published", "wait"} => (tradeNext <=> Balanced)

RunnerInv == RunnerTypeOK /\ CountInv /\ RepeatInv /\ TurnInv

USE RunnerAssumption

LEMMA SpareMore ==
  \A e \in Nat : /\ Spare(e) \in Nat /\ Spare(e + 1) = Spare(e) + (Attempts - 1)
                 /\ e > 0 => Spare(e) = Spare(e - 1) + (Attempts - 1)
BY DEF Spare

LEMMA RunnerTypes ==
  ASSUME RunnerTypeOK
  PROVE  /\ sent["trade"] \in Nat /\ sent["quote"] \in Nat /\ Events \in Nat
         /\ count \in Nat /\ late \in Nat /\ repeats \in Nat /\ tries \in Nat
         /\ config.max \in Nat /\ loop.kind \in Kind /\ landed \in BOOLEAN
BY DEF RunnerTypeOK, Kind, Config, Events

LEMMA RunnerInitOK == RunnerInit => RunnerInv
<1> SUFFICES ASSUME RunnerInit PROVE RunnerInv
  OBVIOUS
<1>1. /\ sent["trade"] = 0 /\ sent["quote"] = 0 /\ loop.at = "check"
      /\ sent \in [Kind -> 0 .. MaxEvents]
  BY DEF RunnerInit, NothingSent, Kind, Fresh
<1>2. RunnerTypeOK
  <2>1. /\ 0 \in 0 .. MaxEvents /\ 0 \in 0 .. Attempts - 1 /\ 0 \in Nat
        /\ loop \in [at : {"check", "publish", "published", "wait", "stopped", "failed"},
                    kind : Kind]
    BY DEF RunnerInit, Fresh, Kind
  <2> QED BY <1>1, <2>1, Zenon DEF RunnerInit, RunnerTypeOK
<1>3. CountInv /\ RepeatInv /\ TurnInv
  BY <1>1, SpareMore
     DEF RunnerInit, CountInv, RepeatInv, TurnInv, Balanced, Events, LoopAt, Config
<1> QED
  BY <1>2, <1>3 DEF RunnerInv

\* What one request does to the stream.
LEMMA PutRecordFacts ==
  ASSUME RunnerInv, LoopAt("publish"), NEW accepted \in BOOLEAN, PutRecord(accepted)
  PROVE  /\ sent' \in [Kind -> 0 .. MaxEvents] /\ landed' \in BOOLEAN
         /\ late' \in 0 .. MaxEvents /\ repeats' \in Nat
         /\ Events' = IF landed' THEN count + 1 ELSE count
         /\ late' <= 1 /\ (late' = 1 => landed' /\ stop)
         /\ landed' => repeats' <= Spare(Events' - 1) + tries
         /\ ~landed' => repeats' <= Spare(Events')
         /\ landed' => Events' \in Nat \ {0}
         /\ accepted => landed'
         /\ config.mode = "both" =>
              /\ sent'["trade"] - sent'["quote"] \in {0, 1}
              /\ loop.kind = "trade" <=>
                   (sent'["trade"] = sent'["quote"] <=> ~landed')
<1>1. /\ sent["trade"] \in 0 .. MaxEvents /\ sent["quote"] \in 0 .. MaxEvents
      /\ loop.kind \in Kind /\ count \in Nat /\ count < MaxEvents
      /\ Events = sent["trade"] + sent["quote"]
      /\ Events = IF landed THEN count + 1 ELSE count
      /\ late <= 1 /\ (late = 1 => landed /\ stop) /\ late \in Nat
      /\ landed \in BOOLEAN /\ tries \in Nat /\ repeats \in Nat
      /\ sent \in [Kind -> 0 .. MaxEvents]
  BY DEF RunnerInv, RunnerTypeOK, CountInv, Events, Kind
<1>2. /\ landed' <=> (landed \/ accepted)
      /\ landed' \in BOOLEAN
      /\ late' = IF accepted /\ ~landed /\ stop THEN late + 1 ELSE late
      /\ repeats' = IF accepted /\ landed THEN repeats + 1 ELSE repeats
      /\ sent' = IF accepted /\ ~landed THEN [sent EXCEPT ![loop.kind] = @ + 1] ELSE sent
  BY Zenon DEF PutRecord
<1>3. /\ sent'["trade"] = IF accepted /\ ~landed /\ loop.kind = "trade"
                          THEN sent["trade"] + 1 ELSE sent["trade"]
      /\ sent'["quote"] = IF accepted /\ ~landed /\ loop.kind = "quote"
                          THEN sent["quote"] + 1 ELSE sent["quote"]
  BY <1>1, <1>2 DEF Kind
<1>4. Events' = IF accepted /\ ~landed THEN Events + 1 ELSE Events
  BY <1>1, <1>3 DEF Events, Kind
<1>5. sent' \in [Kind -> 0 .. MaxEvents]
  <2>1. CASE accepted /\ ~landed
    <3>1. sent[loop.kind] + 1 \in 0 .. MaxEvents
      BY <1>1, <2>1 DEF Kind
    <3> QED BY <1>1, <1>2, <2>1, <3>1
  <2> QED BY <1>1, <1>2, <2>1
<1>6. /\ late' \in 0 .. MaxEvents /\ repeats' \in Nat /\ landed' \in BOOLEAN
      /\ Events' = IF landed' THEN count + 1 ELSE count
      /\ late' <= 1 /\ (late' = 1 => landed' /\ stop)
      /\ landed' => Events' \in Nat \ {0}
      /\ accepted => landed'
  BY <1>1, <1>2, <1>4
<1>7. IF landed THEN 1 <= tries /\ repeats + 1 <= Spare(Events - 1) + tries
      ELSE repeats <= Spare(Events)
  BY DEF RunnerInv, RepeatInv
<1>8. /\ landed' => repeats' <= Spare(Events' - 1) + tries
      /\ ~landed' => repeats' <= Spare(Events')
  <2>1. CASE landed
    <3>1. Events' = Events /\ landed' /\ repeats' <= repeats + 1
      BY <1>1, <1>2, <1>4, <2>1
    <3>2. Spare(Events - 1) \in Nat
      BY <1>1, <2>1, SpareMore
    <3> QED BY <1>1, <1>6, <1>7, <2>1, <3>1, <3>2
  <2>2. CASE ~landed /\ accepted
    <3>1. Events' - 1 = Events /\ landed' /\ repeats' = repeats
      BY <1>1, <1>2, <1>4, <2>2
    <3>2. Spare(Events) \in Nat
      BY <1>1, <2>2, SpareMore
    <3> QED BY <1>1, <1>7, <2>2, <3>1, <3>2
  <2>3. CASE ~landed /\ ~accepted
    BY <1>1, <1>2, <1>4, <1>7, <2>3
  <2> QED BY <1>1, <2>1, <2>2, <2>3
<1>9. ASSUME config.mode = "both"
      PROVE  /\ sent'["trade"] - sent'["quote"] \in {0, 1}
             /\ loop.kind = "trade" <=> (sent'["trade"] = sent'["quote"] <=> ~landed')
  <2>1. /\ sent["trade"] - sent["quote"] \in {0, 1}
        /\ loop.kind = "trade" <=> (sent["trade"] = sent["quote"] <=> ~landed)
    BY <1>9 DEF RunnerInv, TurnInv, Balanced
  <2>2. CASE accepted /\ ~landed
    BY <1>1, <1>2, <1>3, <2>1, <2>2 DEF Kind
  <2>3. CASE ~(accepted /\ ~landed)
    <3>1. landed' = landed /\ sent' = sent
      BY <1>1, <1>2, <2>3
    <3> QED BY <2>1, <3>1
  <2> QED BY <2>2, <2>3
<1> QED
  BY <1>5, <1>6, <1>8, <1>9

LEMMA ResendRecordStep ==
  ASSUME RunnerInv, NEW accepted \in BOOLEAN, ResendRecord(accepted)
  PROVE  RunnerInv'
<1>1. /\ LoopAt("publish") /\ LoopAt("publish")' /\ PutRecord(accepted)
      /\ tries + 1 < Attempts /\ tries' = tries + 1 /\ tries \in Nat
      /\ UNCHANGED <<config, loop, tradeNext, count, stop>>
  BY DEF ResendRecord, LoopAt, RunnerInv, RunnerTypeOK
<1>2. RunnerTypeOK'
  BY <1>1, PutRecordFacts DEF RunnerInv, RunnerTypeOK
<1>3. CountInv'
  BY <1>1, PutRecordFacts DEF RunnerInv, CountInv
<1>4. RepeatInv'
  <2>1. landed' => Spare(Events' - 1) \in Nat
    BY <1>1, PutRecordFacts, SpareMore
  <2> QED BY <1>1, <2>1, PutRecordFacts DEF RepeatInv
<1>5. TurnInv'
  <2> SUFFICES ASSUME config.mode = "both" PROVE TurnInv'
    BY <1>1 DEF TurnInv
  <2>1. /\ sent'["trade"] - sent'["quote"] \in {0, 1}
        /\ loop.kind = "trade" <=> (sent'["trade"] = sent'["quote"] <=> ~landed')
    BY <1>1, PutRecordFacts
  <2>2. tradeNext <=> loop.kind = "quote"
    BY <1>1 DEF RunnerInv, TurnInv
  <2>3. loop'.at \notin {"check", "published", "wait"}
    BY <1>1 DEF LoopAt
  <2> QED BY <1>1, <2>1, <2>2, <2>3, Zenon DEF TurnInv, Balanced
<1> QED BY <1>2, <1>3, <1>4, <1>5 DEF RunnerInv

LEMMA PublishRecordStep ==
  ASSUME RunnerInv, NEW accepted \in BOOLEAN, NEW ok \in BOOLEAN,
         PublishRecord(accepted, ok)
  PROVE  RunnerInv'
<1>1. /\ LoopAt("publish") /\ PutRecord(accepted) /\ (ok => accepted)
      /\ tries' = 0 /\ count' = IF ok THEN count + 1 ELSE count
      /\ loop' = [loop EXCEPT !.at = IF ok THEN "published" ELSE "failed"]
      /\ UNCHANGED <<config, tradeNext, stop>>
  BY DEF PublishRecord
<1>2. /\ loop'.at = IF ok THEN "published" ELSE "failed"
      /\ loop' \in [at : {"check", "publish", "published", "wait", "stopped", "failed"},
                    kind : Kind]
  BY <1>1 DEF RunnerInv, RunnerTypeOK
<1>3. /\ ~LoopAt("publish")' /\ ~LoopAt("check")' /\ ~LoopAt("wait")'
      /\ LoopAt("failed")' <=> ~ok
      /\ LoopAt("published")' <=> ok
  BY <1>2 DEF LoopAt
<1>4. /\ count \in Nat /\ count < MaxEvents /\ (config.max > 0 => count < config.max)
      /\ config.max \in Nat /\ tries \in 0 .. Attempts - 1 /\ Events' \in Nat
  BY <1>1, PutRecordFacts DEF RunnerInv, RunnerTypeOK, CountInv, Config
<1>5. RunnerTypeOK'
  BY <1>1, <1>2, <1>4, PutRecordFacts DEF RunnerInv, RunnerTypeOK
<1>6. CountInv'
  BY <1>1, <1>3, <1>4, PutRecordFacts DEF CountInv
<1>7. RepeatInv'
  <2>1. CASE landed'
    <3>1. /\ Spare(Events') = Spare(Events' - 1) + (Attempts - 1)
          /\ Spare(Events' - 1) \in Nat
      BY <1>1, <2>1, PutRecordFacts, SpareMore
    <3> QED BY <1>1, <1>3, <1>4, <2>1, <3>1, PutRecordFacts DEF RepeatInv
  <2>2. CASE ~landed'
    BY <1>1, <1>3, <2>2, PutRecordFacts DEF RepeatInv
  <2> QED BY <2>1, <2>2
<1>8. TurnInv'
  <2> SUFFICES ASSUME config.mode = "both" PROVE TurnInv'
    BY <1>1 DEF TurnInv
  <2>1. /\ sent'["trade"] - sent'["quote"] \in {0, 1}
        /\ loop.kind = "trade" <=> (sent'["trade"] = sent'["quote"] <=> ~landed')
    BY <1>1, PutRecordFacts
  <2>2. tradeNext <=> loop.kind = "quote"
    BY <1>1 DEF RunnerInv, TurnInv
  <2>3. loop.kind \in {"trade", "quote"}
    BY DEF RunnerInv, RunnerTypeOK, Kind
  <2>4. loop'.at \in {"check", "published", "wait"} => landed'
    BY <1>1, <1>2, PutRecordFacts
  <2>5. loop'.at \in {"check", "published", "wait"} =>
          (tradeNext <=> sent'["trade"] = sent'["quote"])
    BY <2>1, <2>2, <2>3, <2>4
  <2> QED BY <1>1, <1>3, <2>1, <2>5, Zenon DEF TurnInv, Balanced
<1> QED BY <1>5, <1>6, <1>7, <1>8 DEF RunnerInv

\* The event that CheckStop chooses has not landed, and it is its kind's turn.
LEMMA CheckStopStep == ASSUME RunnerInv, CheckStop PROVE RunnerInv'
<1>1. LoopAt("check") /\ UNCHANGED <<config, count, stop, tries, sent, late, repeats>>
  BY DEF CheckStop
<1>2. /\ Events = count /\ late = 0 /\ tries = 0 /\ Events' = Events
      /\ loop.at = "check" /\ repeats <= Spare(Events)
      /\ config.max > 0 => Events <= config.max
  BY <1>1 DEF RunnerInv, CountInv, RepeatInv, LoopAt, Events
<1>3. CASE ShouldStop
  <2>1. /\ loop' = [loop EXCEPT !.at = "stopped"] /\ UNCHANGED <<tradeNext, landed>>
        /\ loop'.at = "stopped"
    BY <1>3 DEF CheckStop, RunnerInv, RunnerTypeOK
  <2>2. RunnerTypeOK'
    BY <1>1, <2>1 DEF RunnerInv, RunnerTypeOK
  <2>3. CountInv' /\ RepeatInv'
    BY <1>1, <1>2, <2>1 DEF CountInv, RepeatInv, LoopAt
  <2>4. TurnInv'
    BY <1>1, <2>1 DEF RunnerInv, TurnInv, LoopAt
  <2> QED BY <2>2, <2>3, <2>4 DEF RunnerInv
<1>4. CASE ~ShouldStop
  <2>1. /\ count < MaxEvents /\ landed' = FALSE
        /\ loop' = [at |-> "publish", kind |-> NextKind]
        /\ tradeNext' = IF config.mode = "both" THEN ~tradeNext ELSE tradeNext
        /\ config.max > 0 => count < config.max
    BY <1>4, RunnerTypes DEF CheckStop, ShouldStop, RunnerInv
  <2>2. /\ loop'.at = "publish" /\ loop'.kind = NextKind /\ NextKind \in Kind
        /\ loop' \in [at : {"check", "publish", "published", "wait", "stopped", "failed"},
                      kind : Kind]
    BY <2>1 DEF NextKind, RunnerInv, RunnerTypeOK, Config, Kind
  <2>3. tradeNext' \in BOOLEAN
    BY <2>1 DEF RunnerInv, RunnerTypeOK
  <2>4. RunnerTypeOK'
    BY <1>1, <2>1, <2>2, <2>3 DEF RunnerInv, RunnerTypeOK
  <2>5. CountInv' /\ RepeatInv'
    BY <1>1, <1>2, <2>1, <2>2, SpareMore DEF CountInv, RepeatInv, LoopAt
  <2>6. TurnInv'
    <3> SUFFICES ASSUME config.mode = "both" PROVE TurnInv'
      BY <1>1 DEF TurnInv
    <3>1. /\ tradeNext' = ~tradeNext
          /\ NextKind = IF tradeNext THEN "trade" ELSE "quote"
      BY <2>1, ZenonT(30) DEF NextKind
    <3>2. /\ tradeNext <=> sent["trade"] = sent["quote"]
          /\ sent["trade"] - sent["quote"] \in {0, 1}
      BY <1>2 DEF RunnerInv, TurnInv, Balanced
    <3>3. /\ tradeNext' <=> loop'.kind = "quote"
          /\ loop'.kind = "trade" <=> (sent'["trade"] = sent'["quote"] <=> ~landed')
      BY <1>1, <2>1, <2>2, <3>1, <3>2
    <3> QED BY <1>1, <2>2, <3>2, <3>3 DEF TurnInv, Balanced
  <2> QED BY <2>4, <2>5, <2>6 DEF RunnerInv
<1> QED BY <1>3, <1>4

LEMMA RunnerInductive == RunnerInv /\ [RunnerNext]_runnerVars => RunnerInv'
<1> SUFFICES ASSUME RunnerInv, [RunnerNext]_runnerVars PROVE RunnerInv'
  OBVIOUS
<1>1. CASE UNCHANGED runnerVars
  BY <1>1 DEF runnerVars, stream, RunnerInv, RunnerTypeOK, CountInv, RepeatInv,
              TurnInv, Balanced, Events, LoopAt
<1>2. CASE Signal
  BY <1>2 DEF Signal, stream, RunnerInv, RunnerTypeOK, CountInv, RepeatInv,
              TurnInv, Balanced, Events, LoopAt
<1>3. CASE Recheck
  BY <1>3 DEF Recheck, ShouldStop, stream, Config, RunnerInv, RunnerTypeOK, CountInv,
              RepeatInv, TurnInv, Balanced, Events, LoopAt
<1>4. CASE Wake
  BY <1>4 DEF Wake, stream, RunnerInv, RunnerTypeOK, CountInv, RepeatInv,
              TurnInv, Balanced, Events, LoopAt
<1>5. CASE StartAgain
  <2>1. /\ sent'["trade"] = 0 /\ sent'["quote"] = 0 /\ loop'.at = "check"
        /\ sent' \in [Kind -> 0 .. MaxEvents]
    BY <1>5 DEF StartAgain, NothingSent, Kind, Fresh
  <2>2. RunnerTypeOK'
    <3>1. /\ 0 \in 0 .. MaxEvents /\ 0 \in 0 .. Attempts - 1 /\ 0 \in Nat
          /\ loop' \in [at : {"check", "publish", "published", "wait", "stopped", "failed"},
                        kind : Kind]
      BY <1>5 DEF StartAgain, Fresh, Kind
    <3> QED BY <1>5, <2>1, <3>1, Zenon DEF StartAgain, RunnerTypeOK
  <2>3. CountInv' /\ RepeatInv' /\ TurnInv'
    BY <1>5, <2>1, SpareMore
       DEF StartAgain, CountInv, RepeatInv, TurnInv, Balanced, Events, LoopAt, Config
  <2> QED BY <2>2, <2>3 DEF RunnerInv
<1> QED
  BY <1>1, <1>2, <1>3, <1>4, <1>5, CheckStopStep, ResendRecordStep, PublishRecordStep
     DEF RunnerNext

\* The ingestor process publishes no more than max_events events, each in at most
\* Attempts records that follow one another, loses count of one at most, alternates
\* the kinds, and after a signal publishes at most the event it was about to publish
\* (runner.py 235-411, clients.py 12-19).
THEOREM RunnerAccountable == RunnerSpec => []RunnerAccounts
<1>1. RunnerInv => RunnerAccounts
  <2> SUFFICES ASSUME RunnerInv PROVE RunnerAccounts
    OBVIOUS
  <2>1. repeats <= (Attempts - 1) * Events
    <3>1. CASE LoopAt("publish") /\ landed
      <4>1. Events \in Nat \ {0}
        BY <3>1, RunnerTypes DEF RunnerInv, CountInv
      <4>2. tries <= Attempts - 1 /\ repeats + 1 <= Spare(Events - 1) + tries
        BY <3>1 DEF RunnerInv, RunnerTypeOK, RepeatInv
      <4>3. repeats <= Spare(Events)
        BY <4>1, <4>2, SpareMore, RunnerTypes DEF RunnerInv
      <4> QED BY <4>3 DEF Spare
    <3> QED BY <3>1 DEF RunnerInv, RepeatInv, Spare
  <2>2. config.max > 0 => Events <= config.max
    BY RunnerTypes DEF RunnerInv, CountInv
  <2> QED BY <2>1, <2>2, RunnerTypes
          DEF RunnerInv, CountInv, TurnInv, RunnerAccounts, Events
<1>2. RunnerInit => RunnerInv
  BY RunnerInitOK
<1>3. RunnerInv /\ [RunnerNext]_runnerVars => RunnerInv'
  BY RunnerInductive
<1> QED
  BY <1>1, <1>2, <1>3, PTL DEF RunnerSpec

\* Types of the ingestor process's state.
THEOREM RunnerTyped == RunnerSpec => []RunnerTypeOK
<1>1. RunnerInv => RunnerTypeOK
  BY DEF RunnerInv
<1>2. RunnerInit => RunnerInv
  BY RunnerInitOK
<1>3. RunnerInv /\ [RunnerNext]_runnerVars => RunnerInv'
  BY RunnerInductive
<1> QED
  BY <1>1, <1>2, <1>3, PTL DEF RunnerSpec
=============================================================================
