------------------------- MODULE MarketSnapshotsProofs --------------------------
(***************************************************************************)
(* Theorems about MarketSnapshots and about Valuation, which uses it, for  *)
(* every number of threads, symbols and trades, every pair of TTLs and     *)
(* every bound on the requests.                                            *)
(***************************************************************************)
EXTENDS Valuation, FiniteSetTheorems, TLAPS

\* A copy was written with a quote of its request, and ages while it lives.
CopyOK(copy, TTL) == copy \in Copy(TTL) /\ copy.age + copy.left <= TTL + MaxHold

AgesOK(quote, held) ==
  \A s \in Symbol : quote[s].age <= Oldest(quote[s].source, held)

\* What a request knows: its ages, that nothing is fetched or written before the
\* provider answers, that what put_many writes came from the provider and is still
\* what the request answers, and what its answer lacks.
RecordOK(b) ==
  b.at # "idle" =>
    /\ AgesOK(b.quote, b.held)
    /\ b.at \in {"fresh", "provider"} => b.gave = {} /\ b.half = NoSymbol /\ b.puts = {}
    /\ \A s \in b.gave : b.quote[s].source = "provider"
    /\ b.puts \subseteq b.gave
    /\ b.half # NoSymbol => b.half \in b.puts
    /\ b.at = "done" => \A s \in b.asks : b.quote[s] = Missing => s \in b.lacked

SnapshotInv ==
  /\ fresh \in [Symbol -> Copy(FreshTTL)] /\ stale \in [Symbol -> Copy(StaleTTL)]
  /\ \A s \in Symbol : CopyOK(fresh[s], FreshTTL) /\ CopyOK(stale[s], StaleTTL)
  /\ batch \in [Thread -> Batch]
  /\ \A t \in Thread : RecordOK(batch[t])

-----------------------------------------------------------------------------

LEMMA SnapshotConstants ==
  /\ FreshTTL \in Nat \ {0} /\ StaleTTL \in Nat /\ FreshTTL < StaleTTL
  /\ MaxHold \in Nat /\ NoSymbol \notin Symbol
BY SnapshotAssumption, ThreadAssumption

LEMMA MissingIsQuote == Missing \in Quote
BY DEF Quote

LEMMA BusyFields ==
  ASSUME NEW b \in Batch, b.at # "idle"
  PROVE  /\ b = [at |-> b.at, asks |-> b.asks, quote |-> b.quote, puts |-> b.puts,
                 half |-> b.half, held |-> b.held, gave |-> b.gave, lacked |-> b.lacked]
         /\ b.at \in {"fresh", "provider", "put", "stale", "done"}
         /\ b.asks \in SUBSET Symbol /\ b.quote \in [Symbol -> Quote]
         /\ b.puts \in SUBSET Symbol /\ b.half \in Symbol \cup {NoSymbol}
         /\ b.held \in 0 .. MaxHold /\ b.gave \in SUBSET Symbol /\ b.lacked \in SUBSET Symbol
BY DEF Batch, NoBatch

\* Requests with some fields changed, as the actions change them.
LEMMA PuttingRecord ==
  ASSUME NEW b \in Batch, b.at # "idle", NEW half, NEW puts
  PROVE  [b EXCEPT !.half = half, !.puts = puts] =
           [at |-> b.at, asks |-> b.asks, quote |-> b.quote, puts |-> puts,
            half |-> half, held |-> b.held, gave |-> b.gave, lacked |-> b.lacked]
<1> DEFINE c == [b EXCEPT !.half = half]
<1>1. [b EXCEPT !.half = half, !.puts = puts] =
        [c EXCEPT !.puts = puts]
  OBVIOUS
<1>2. b = [at |-> b.at, asks |-> b.asks, quote |-> b.quote, puts |-> b.puts,
           half |-> b.half, held |-> b.held, gave |-> b.gave, lacked |-> b.lacked]
  BY BusyFields
<1>3. c = [at |-> b.at, asks |-> b.asks, quote |-> b.quote, puts |-> b.puts,
           half |-> half, held |-> b.held, gave |-> b.gave, lacked |-> b.lacked]
  BY <1>2
<1> HIDE DEF c
<1> QED
  BY <1>1, <1>3

LEMMA AnsweredRecord ==
  ASSUME NEW b \in Batch, b.at # "idle", NEW stage, NEW q, NEW lacked
  PROVE  [b EXCEPT !.at = stage, !.quote = q, !.lacked = lacked] =
           [at |-> stage, asks |-> b.asks, quote |-> q, puts |-> b.puts,
            half |-> b.half, held |-> b.held, gave |-> b.gave, lacked |-> lacked]
<1> DEFINE c == [b EXCEPT !.at = stage]
           d == [c EXCEPT !.quote = q]
<1>1. [b EXCEPT !.at = stage, !.quote = q, !.lacked = lacked] =
        [d EXCEPT !.lacked = lacked]
  OBVIOUS
<1>2. b = [at |-> b.at, asks |-> b.asks, quote |-> b.quote, puts |-> b.puts,
           half |-> b.half, held |-> b.held, gave |-> b.gave, lacked |-> b.lacked]
  BY BusyFields
<1>3. c = [at |-> stage, asks |-> b.asks, quote |-> b.quote, puts |-> b.puts,
           half |-> b.half, held |-> b.held, gave |-> b.gave, lacked |-> b.lacked]
  BY <1>2
<1> HIDE DEF c
<1>4. d = [at |-> stage, asks |-> b.asks, quote |-> q, puts |-> b.puts,
           half |-> b.half, held |-> b.held, gave |-> b.gave, lacked |-> b.lacked]
  BY <1>3
<1> HIDE DEF d
<1> QED
  BY <1>1, <1>4

LEMMA QuoteFields ==
  ASSUME NEW q \in Quote
  PROVE  q.age \in Nat /\ q.source \in {"none", "cache", "provider", "stale_cache"}
BY SnapshotConstants DEF Quote, Missing

\* The step of one thread leaves the records of the others alone.
LEMMA OneRecord ==
  ASSUME SnapshotInv, NEW t \in Thread, NEW b \in Batch, RecordOK(b),
         batch' = [batch EXCEPT ![t] = b]
  PROVE  batch' \in [Thread -> Batch] /\ \A o \in Thread : RecordOK(batch'[o])
BY DEF SnapshotInv

LEMMA CopiesKept ==
  ASSUME SnapshotInv, UNCHANGED <<fresh, stale>>
  PROVE  /\ fresh' \in [Symbol -> Copy(FreshTTL)] /\ stale' \in [Symbol -> Copy(StaleTTL)]
         /\ \A s \in Symbol : CopyOK(fresh'[s], FreshTTL) /\ CopyOK(stale'[s], StaleTTL)
BY DEF SnapshotInv

LEMMA InvAfter ==
  ASSUME /\ fresh' \in [Symbol -> Copy(FreshTTL)] /\ stale' \in [Symbol -> Copy(StaleTTL)]
         /\ \A s \in Symbol : CopyOK(fresh'[s], FreshTTL) /\ CopyOK(stale'[s], StaleTTL),
         batch' \in [Thread -> Batch], \A o \in Thread : RecordOK(batch'[o])
  PROVE  SnapshotInv'
BY DEF SnapshotInv, CopyOK, RecordOK, AgesOK, Oldest, Copy, Batch, NoBatch, Quote, Missing

\* A step of thread t to record b that leaves Redis alone.
LEMMA StepTo ==
  ASSUME SnapshotInv, NEW t \in Thread, NEW b \in Batch, RecordOK(b),
         batch' = [batch EXCEPT ![t] = b], UNCHANGED <<fresh, stale>>
  PROVE  SnapshotInv'
BY OneRecord, CopiesKept, InvAfter

\* What a request reads from a key is as old as a copy may be.
LEMMA CopiedQuotes ==
  ASSUME SnapshotInv, NEW t \in Thread, batch[t].at # "idle", NEW symbols \in SUBSET Symbol,
         NEW tier, NEW source, \/ tier = fresh /\ source = "cache"
                               \/ tier = stale /\ source = "stale_cache"
  PROVE  /\ Copies(t, tier, source, symbols) \in [Symbol -> Quote]
         /\ AgesOK(Copies(t, tier, source, symbols), batch[t].held)
<1> DEFINE q == Copies(t, tier, source, symbols)
<1>b. batch[t] \in Batch /\ RecordOK(batch[t])
  BY DEF SnapshotInv
<1>h. batch[t].quote \in [Symbol -> Quote] /\ batch[t].held \in 0 .. MaxHold
  BY <1>b, BusyFields
<1>1. ASSUME NEW s \in Symbol
      PROVE  q[s] \in Quote /\ q[s].age <= Oldest(q[s].source, batch[t].held)
  <2>1. CASE s \in symbols /\ tier[s] # NoCopy
    <3>1. q[s] = [source |-> source, age |-> tier[s].age]
      BY <2>1 DEF Copies
    <3>2. CASE tier = fresh /\ source = "cache"
      <4>1. fresh[s] \in [age : 0 .. FreshTTL + MaxHold, left : 1 .. FreshTTL]
            /\ fresh[s].age + fresh[s].left <= FreshTTL + MaxHold
        BY <2>1, <3>2 DEF SnapshotInv, CopyOK, Copy
      <4>2. fresh[s].age \in 0 .. FreshTTL + MaxHold - 1
        BY <4>1, SnapshotConstants
      <4> QED
        BY <4>2, <3>1, <3>2, <1>h, SnapshotConstants DEF Quote, Oldest
    <3>3. CASE tier = stale /\ source = "stale_cache"
      <4>1. stale[s] \in [age : 0 .. StaleTTL + MaxHold, left : 1 .. StaleTTL]
            /\ stale[s].age + stale[s].left <= StaleTTL + MaxHold
        BY <2>1, <3>3 DEF SnapshotInv, CopyOK, Copy
      <4>2. stale[s].age \in 0 .. StaleTTL + MaxHold - 1
        BY <4>1, SnapshotConstants
      <4> QED
        BY <4>2, <3>1, <3>3, <1>h, SnapshotConstants DEF Quote, Oldest
    <3> QED
      BY <3>2, <3>3
  <2>2. CASE ~(s \in symbols /\ tier[s] # NoCopy)
    BY <2>2, <1>b, <1>h DEF Copies, RecordOK, AgesOK
  <2> QED
    BY <2>1, <2>2
<1> QED
  BY <1>1 DEF AgesOK, Copies

-----------------------------------------------------------------------------
(* One lemma per action.                                                    *)

LEMMA BeginStep ==
  ASSUME SnapshotInv, NEW t \in Thread, NEW symbols \in SUBSET Symbol, BeginBatch(t, symbols)
  PROVE  SnapshotInv'
<1> DEFINE b == [at |-> "fresh", asks |-> symbols, quote |-> [s \in Symbol |-> Missing],
                 puts |-> {}, half |-> NoSymbol, held |-> 0, gave |-> {}, lacked |-> {}]
<1>1. b \in Batch
  BY MissingIsQuote, SnapshotConstants DEF Batch
<1>2. RecordOK(b)
  BY SnapshotConstants DEF RecordOK, AgesOK, Missing, Oldest
<1>3. batch' = [batch EXCEPT ![t] = b] /\ UNCHANGED <<fresh, stale>>
  BY DEF BeginBatch
<1> HIDE DEF b
<1> QED
  BY <1>1, <1>2, <1>3, StepTo

\* The step of thread t to the same request with other quotes, and where it goes.
LEMMA GoOnStep ==
  ASSUME SnapshotInv, NEW t \in Thread, NEW q \in [Symbol -> Quote],
         NEW unresolved \in {"provider", "stale"},
         batch[t].at # "idle",
         unresolved = "provider" => batch[t].at = "fresh",
         AgesOK(q, batch[t].held),
         \A s \in batch[t].gave : q[s].source = "provider",
         GoOn(t, q, unresolved, "done"), UNCHANGED <<fresh, stale>>
  PROVE  SnapshotInv'
<1>0. PICK stage :
        stage = IF \E s \in batch[t].asks : q[s] = Missing THEN unresolved ELSE "done"
  OBVIOUS
<1> DEFINE b == [batch[t] EXCEPT !.quote = q, !.at = stage]
<1>b. batch[t] \in Batch /\ RecordOK(batch[t])
  BY DEF SnapshotInv
<1>e. b = [at |-> stage, asks |-> batch[t].asks, quote |-> q, puts |-> batch[t].puts,
           half |-> batch[t].half, held |-> batch[t].held, gave |-> batch[t].gave,
           lacked |-> batch[t].lacked]
  <2>1. PICK r \in Batch : r = batch[t]
    BY <1>b
  <2> DEFINE c == [r EXCEPT !.quote = q]
  <2>2. r = [at |-> r.at, asks |-> r.asks, quote |-> r.quote, puts |-> r.puts,
             half |-> r.half, held |-> r.held, gave |-> r.gave, lacked |-> r.lacked]
    BY <2>1, BusyFields
  <2>3. c = [at |-> r.at, asks |-> r.asks, quote |-> q, puts |-> r.puts,
             half |-> r.half, held |-> r.held, gave |-> r.gave, lacked |-> r.lacked]
    BY <2>2
  <2>4. b = [c EXCEPT !.at = stage]
    BY <2>1
  <2> HIDE DEF c
  <2>5. b = [at |-> stage, asks |-> r.asks, quote |-> q, puts |-> r.puts,
             half |-> r.half, held |-> r.held, gave |-> r.gave, lacked |-> r.lacked]
    BY <2>3, <2>4
  <2> QED BY <2>1, <2>5
<1>s. /\ stage \in {"provider", "stale", "done"}
      /\ stage = "provider" => unresolved = "provider"
      /\ stage = "done" => \A s \in batch[t].asks : q[s] # Missing
  BY <1>0
<1>1. b \in Batch
  <2> HIDE DEF b
  <2> QED
    BY <1>b, <1>e, <1>s, BusyFields DEF Batch
<1>2. RecordOK(b)
  <2> HIDE DEF b
  <2> QED
    BY <1>e, <1>s, <1>b DEF RecordOK
<1>3. batch' = [batch EXCEPT ![t] = b]
  BY <1>0 DEF GoOn, SnapshotInv
<1> HIDE DEF b
<1> QED
  BY <1>1, <1>2, <1>3, StepTo

LEMMA ReadFreshStep ==
  ASSUME SnapshotInv, NEW t \in Thread, NEW redis \in BOOLEAN, ReadFresh(t, redis)
  PROVE  SnapshotInv'
<1> DEFINE symbols == IF redis THEN batch[t].asks ELSE {}
<1>1. batch[t].at = "fresh" /\ batch[t] \in Batch /\ batch[t].gave = {}
  BY DEF ReadFresh, BatchAt, SnapshotInv, RecordOK
<1>2. symbols \in SUBSET Symbol
  BY <1>1, BusyFields
<1>3. /\ Copies(t, fresh, "cache", symbols) \in [Symbol -> Quote]
      /\ AgesOK(Copies(t, fresh, "cache", symbols), batch[t].held)
  BY <1>1, <1>2, CopiedQuotes
<1>4. GoOn(t, Copies(t, fresh, "cache", symbols), "provider", "done")
      /\ UNCHANGED <<fresh, stale>>
  BY DEF ReadFresh
<1> HIDE DEF symbols
<1> QED
  BY <1>1, <1>3, <1>4, GoOnStep

LEMMA FetchStep ==
  ASSUME SnapshotInv, NEW t \in Thread, NEW symbols \in SUBSET Symbol, Fetch(t, symbols)
  PROVE  SnapshotInv'
<1> DEFINE q == [s \in Symbol |-> IF s \in symbols THEN [source |-> "provider", age |-> 0]
                                  ELSE batch[t].quote[s]]
<1>0. PICK stage : stage = IF symbols = {} THEN "stale" ELSE "put"
  OBVIOUS
<1> DEFINE b == [batch[t] EXCEPT !.at = stage, !.quote = q, !.puts = symbols,
                                 !.gave = symbols]
<1>b. batch[t] \in Batch /\ RecordOK(batch[t]) /\ batch[t].at = "provider"
  BY DEF SnapshotInv, Fetch, BatchAt
<1>h. batch[t].quote \in [Symbol -> Quote] /\ batch[t].held \in 0 .. MaxHold
  BY <1>b, BusyFields
<1>q. q \in [Symbol -> Quote]
  BY <1>h, SnapshotConstants DEF Quote
<1>e. b = [at |-> stage, asks |-> batch[t].asks, quote |-> q, puts |-> symbols,
           half |-> batch[t].half, held |-> batch[t].held, gave |-> symbols,
           lacked |-> batch[t].lacked]
  <2> HIDE DEF q
  <2> DEFINE c == [batch[t] EXCEPT !.at = stage, !.quote = q]
             d == [c EXCEPT !.puts = symbols]
  <2>1. b = [d EXCEPT !.gave = symbols]
    OBVIOUS
  <2>2. c = [at |-> stage, asks |-> batch[t].asks, quote |-> q, puts |-> batch[t].puts,
             half |-> batch[t].half, held |-> batch[t].held, gave |-> batch[t].gave,
             lacked |-> batch[t].lacked]
    <3> DEFINE e == [batch[t] EXCEPT !.at = stage]
    <3>1. c = [e EXCEPT !.quote = q]
      OBVIOUS
    <3>2. e = [at |-> stage, asks |-> batch[t].asks, quote |-> batch[t].quote,
               puts |-> batch[t].puts, half |-> batch[t].half, held |-> batch[t].held,
               gave |-> batch[t].gave, lacked |-> batch[t].lacked]
      BY <1>b, BusyFields
    <3> HIDE DEF e
    <3> QED
      BY <3>1, <3>2
  <2> HIDE DEF c
  <2>3. d = [at |-> stage, asks |-> batch[t].asks, quote |-> q, puts |-> symbols,
             half |-> batch[t].half, held |-> batch[t].held, gave |-> batch[t].gave,
             lacked |-> batch[t].lacked]
    BY <2>2
  <2> HIDE DEF d
  <2> QED
    BY <2>1, <2>3
<1>s. stage \in {"stale", "put"}
  BY <1>0
<1>1. b \in Batch
  <2> HIDE DEF q, b
  <2> QED
    BY <1>b, <1>q, <1>e, <1>s, BusyFields DEF Batch
<1>2. AgesOK(q, batch[t].held)
  BY <1>b, <1>h DEF AgesOK, RecordOK, Oldest
<1>p. \A s \in symbols : q[s].source = "provider"
  OBVIOUS
<1>3. RecordOK(b)
  <2> HIDE DEF q, b
  <2> QED
    BY <1>b, <1>e, <1>p, <1>s, <1>2 DEF RecordOK
<1>4. batch' = [batch EXCEPT ![t] = b] /\ UNCHANGED <<fresh, stale>>
  BY <1>0 DEF Fetch, SnapshotInv
<1> HIDE DEF b
<1> QED
  BY <1>1, <1>3, <1>4, StepTo

\* A command of put_many writes a copy that is no older than its request.
LEMMA WrittenOK ==
  ASSUME SnapshotInv, NEW t \in Thread, BatchAt(t, "put"), NEW s \in batch[t].puts,
         NEW TTL \in {FreshTTL, StaleTTL}, NEW copy, CopyOK(copy, TTL), NEW done \in BOOLEAN
  PROVE  CopyOK(Written(t, s, TTL, copy, done), TTL)
<1>b. batch[t] \in Batch /\ RecordOK(batch[t]) /\ batch[t].at = "put"
  BY DEF SnapshotInv, BatchAt
<1>1. /\ batch[t].quote \in [Symbol -> Quote] /\ batch[t].held \in 0 .. MaxHold
      /\ s \in Symbol /\ s \in batch[t].gave
  BY <1>b, BusyFields DEF RecordOK
<1>2. batch[t].quote[s].source = "provider" /\ batch[t].quote[s].age \in Nat
      /\ batch[t].quote[s].age <= batch[t].held
  BY <1>b, <1>1, QuoteFields DEF RecordOK, AgesOK, Oldest
<1> QED
  BY <1>1, <1>2, SnapshotConstants DEF Written, CopyOK, Copy

LEMMA PutFreshStep ==
  ASSUME SnapshotInv, NEW t \in Thread, NEW s \in Symbol, NEW done \in BOOLEAN, PutFresh(t, s, done)
  PROVE  SnapshotInv'
<1> DEFINE b == [batch[t] EXCEPT !.half = s]
<1>b. batch[t] \in Batch /\ RecordOK(batch[t]) /\ batch[t].at = "put" /\ s \in batch[t].puts
  BY DEF SnapshotInv, PutFresh, BatchAt
<1>1. b \in Batch /\ RecordOK(b)
  <2>1. b = [at |-> batch[t].at, asks |-> batch[t].asks, quote |-> batch[t].quote,
             puts |-> batch[t].puts, half |-> s, held |-> batch[t].held,
             gave |-> batch[t].gave, lacked |-> batch[t].lacked]
    BY <1>b, BusyFields
  <2>2. b \in Batch
    BY <2>1, <1>b, BusyFields DEF Batch
  <2> QED
    BY <2>1, <2>2, <1>b DEF RecordOK
<1>2. batch' = [batch EXCEPT ![t] = b]
  BY DEF PutFresh, SnapshotInv
<1>3. CopyOK(Written(t, s, FreshTTL, fresh[s], done), FreshTTL)
  BY <1>b, WrittenOK DEF PutFresh, SnapshotInv
<1>4. /\ fresh' = [fresh EXCEPT ![s] = Written(t, s, FreshTTL, fresh[s], done)]
      /\ stale' = stale
  BY DEF PutFresh
<1>5. /\ fresh' \in [Symbol -> Copy(FreshTTL)] /\ stale' \in [Symbol -> Copy(StaleTTL)]
      /\ \A r \in Symbol : CopyOK(fresh'[r], FreshTTL) /\ CopyOK(stale'[r], StaleTTL)
  BY <1>3, <1>4 DEF SnapshotInv, CopyOK
<1> HIDE DEF b
<1> QED
  BY <1>1, <1>2, <1>5, OneRecord, InvAfter

LEMMA PutStaleStep ==
  ASSUME SnapshotInv, NEW t \in Thread, NEW s \in Symbol, NEW done \in BOOLEAN, PutStale(t, s, done)
  PROVE  SnapshotInv'
<1> DEFINE b == [batch[t] EXCEPT !.half = NoSymbol, !.puts = batch[t].puts \ {s}]
<1>b. batch[t] \in Batch /\ RecordOK(batch[t]) /\ batch[t].at = "put" /\ s = batch[t].half
  BY DEF SnapshotInv, PutStale, BatchAt
<1>p. s \in batch[t].puts
  BY <1>b, SnapshotConstants DEF RecordOK
<1>1. b \in Batch /\ RecordOK(b)
  <2>1. b = [at |-> batch[t].at, asks |-> batch[t].asks, quote |-> batch[t].quote,
             puts |-> batch[t].puts \ {s}, half |-> NoSymbol, held |-> batch[t].held,
             gave |-> batch[t].gave, lacked |-> batch[t].lacked]
    BY <1>b, PuttingRecord, Zenon
  <2>2. b \in Batch
    BY <2>1, <1>b, BusyFields DEF Batch
  <2> QED
    BY <2>1, <2>2, <1>b DEF RecordOK
<1>2. batch' = [batch EXCEPT ![t] = b]
  BY DEF PutStale, SnapshotInv
<1>3. CopyOK(Written(t, s, StaleTTL, stale[s], done), StaleTTL)
  BY <1>b, <1>p, WrittenOK DEF PutStale, SnapshotInv
<1>4. /\ stale' = [stale EXCEPT ![s] = Written(t, s, StaleTTL, stale[s], done)]
      /\ fresh' = fresh
  BY DEF PutStale
<1>5. /\ fresh' \in [Symbol -> Copy(FreshTTL)] /\ stale' \in [Symbol -> Copy(StaleTTL)]
      /\ \A r \in Symbol : CopyOK(fresh'[r], FreshTTL) /\ CopyOK(stale'[r], StaleTTL)
  BY <1>3, <1>4 DEF SnapshotInv, CopyOK
<1> HIDE DEF b
<1> QED
  BY <1>1, <1>2, <1>5, OneRecord, InvAfter

LEMMA EndPutStep ==
  ASSUME SnapshotInv, NEW t \in Thread, NEW redis \in BOOLEAN, EndPut(t, redis)
  PROVE  SnapshotInv'
<1>b. batch[t] \in Batch /\ RecordOK(batch[t]) /\ batch[t].at = "put"
  BY DEF SnapshotInv, EndPut, BatchAt
<1>1. batch[t].quote \in [Symbol -> Quote]
  BY <1>b, BusyFields
<1>2. GoOn(t, batch[t].quote, "stale", "done") /\ UNCHANGED <<fresh, stale>>
  BY DEF EndPut
<1>3. AgesOK(batch[t].quote, batch[t].held)
      /\ \A s \in batch[t].gave : batch[t].quote[s].source = "provider"
  BY <1>b DEF RecordOK
<1> QED
  BY <1>b, <1>1, <1>2, <1>3, GoOnStep

LEMMA ReadStaleStep ==
  ASSUME SnapshotInv, NEW t \in Thread, NEW redis \in BOOLEAN, ReadStale(t, redis)
  PROVE  SnapshotInv'
<1> DEFINE symbols == IF redis THEN Unresolved(t) ELSE {}
           q == Copies(t, stale, "stale_cache", symbols)
           lacked == IF redis THEN {s \in Unresolved(t) : stale[s] = NoCopy} ELSE Symbol
           b == [batch[t] EXCEPT !.at = "done", !.quote = q, !.lacked = lacked]
<1>b. batch[t] \in Batch /\ RecordOK(batch[t]) /\ batch[t].at = "stale"
  BY DEF SnapshotInv, ReadStale, BatchAt
<1>s. symbols \in SUBSET Symbol /\ lacked \in SUBSET Symbol /\ batch[t].asks \in SUBSET Symbol
  BY <1>b, BusyFields DEF Unresolved
<1>q. q \in [Symbol -> Quote] /\ AgesOK(q, batch[t].held)
  BY <1>b, <1>s, CopiedQuotes
<1>e. b = [at |-> "done", asks |-> batch[t].asks, quote |-> q, puts |-> batch[t].puts,
           half |-> batch[t].half, held |-> batch[t].held, gave |-> batch[t].gave,
           lacked |-> lacked]
  <2> HIDE DEF q, lacked
  <2> QED
    BY <1>b, AnsweredRecord, Zenon
<1>1. b \in Batch
  <2> HIDE DEF q, lacked, b
  <2> QED
    BY <1>b, <1>s, <1>q, <1>e, BusyFields DEF Batch
<1>2. \A s \in batch[t].gave : q[s].source = "provider"
  <2>1. \A s \in batch[t].gave : s \in Symbol /\ batch[t].quote[s].source = "provider"
    BY <1>b, BusyFields DEF RecordOK
  <2>2. \A s \in batch[t].gave : s \notin symbols
    BY <2>1 DEF Unresolved, Missing
  <2> QED
    BY <2>1, <2>2 DEF Copies
<1>3. ASSUME NEW s \in batch[t].asks, q[s] = Missing PROVE s \in lacked
  <2>1. s \in Symbol /\ s \in Unresolved(t) /\ (s \in symbols => stale[s] = NoCopy)
    BY <1>3, <1>s DEF Copies, Unresolved, Missing
  <2> QED
    BY <2>1
<1>4. RecordOK(b)
  <2> HIDE DEF q, lacked, b
  <2> QED
    BY <1>e, <1>2, <1>3, <1>q, <1>b DEF RecordOK
<1>5. batch' = [batch EXCEPT ![t] = b] /\ UNCHANGED <<fresh, stale>>
  BY DEF ReadStale, SnapshotInv
<1> HIDE DEF b
<1> QED
  BY <1>1, <1>4, <1>5, StepTo

LEMMA AnswerStep ==
  ASSUME SnapshotInv, NEW t \in Thread, AnswerBatch(t)
  PROVE  SnapshotInv'
<1>1. NoBatch \in Batch /\ RecordOK(NoBatch)
  BY DEF Batch, RecordOK, NoBatch
<1>2. batch' = [batch EXCEPT ![t] = NoBatch] /\ UNCHANGED <<fresh, stale>>
  BY DEF AnswerBatch
<1> QED
  BY <1>1, <1>2, StepTo

LEMMA AgedOK ==
  ASSUME NEW TTL \in Nat, NEW copy, CopyOK(copy, TTL)
  PROVE  CopyOK(Aged(copy), TTL)
<1>1. CASE copy.left <= 1
  BY <1>1, SnapshotConstants DEF CopyOK, Copy, Aged, NoCopy
<1>2. CASE ~(copy.left <= 1)
  <2>1. copy \in [age : 0 .. TTL + MaxHold, left : 1 .. TTL]
        /\ copy.age + copy.left <= TTL + MaxHold
    BY <1>2 DEF CopyOK, Copy, NoCopy
  <2>2. Aged(copy) = [age |-> copy.age + 1, left |-> copy.left - 1]
    BY <1>2, <2>1 DEF Aged
  <2>3. copy.age + 1 \in 0 .. TTL + MaxHold /\ copy.left - 1 \in 1 .. TTL
    BY <1>2, <2>1, SnapshotConstants
  <2> QED
    BY <2>1, <2>2, <2>3, SnapshotConstants DEF CopyOK, Copy
<1> QED
  BY <1>1, <1>2

LEMMA SnapshotTickStep ==
  ASSUME SnapshotInv, SnapshotTick
  PROVE  SnapshotInv'
<1>1. /\ fresh' \in [Symbol -> Copy(FreshTTL)] /\ stale' \in [Symbol -> Copy(StaleTTL)]
      /\ \A r \in Symbol : CopyOK(fresh'[r], FreshTTL) /\ CopyOK(stale'[r], StaleTTL)
  <2>1. \A r \in Symbol : CopyOK(Aged(fresh[r]), FreshTTL) /\ CopyOK(Aged(stale[r]), StaleTTL)
    BY AgedOK, SnapshotConstants DEF SnapshotInv
  <2> QED
    BY <2>1 DEF SnapshotTick, CopyOK
<1>2. ASSUME NEW t \in Thread
      PROVE  batch'[t] \in Batch /\ RecordOK(batch'[t])
  <2>b. batch[t] \in Batch /\ RecordOK(batch[t])
    BY DEF SnapshotInv
  <2>1. CASE BatchAt(t, "idle")
    BY <2>1 DEF SnapshotTick, Batch, RecordOK, NoBatch
  <2>2. CASE ~BatchAt(t, "idle")
    <3> DEFINE q == [s \in Symbol |-> AgedQuote(batch[t].quote[s])]
               b == [at |-> batch[t].at, asks |-> batch[t].asks, quote |-> q,
                     puts |-> batch[t].puts, half |-> batch[t].half,
                     held |-> batch[t].held + 1, gave |-> batch[t].gave,
                     lacked |-> batch[t].lacked]
    <3>a. batch[t].at # "idle" /\ batch[t].held < MaxHold
      BY <2>2 DEF BatchAt, SnapshotTick
    <3>h. /\ batch[t].quote \in [Symbol -> Quote]
          /\ batch[t].held \in 0 .. MaxHold /\ batch[t].held + 1 \in 0 .. MaxHold
          /\ batch[t].gave \in SUBSET Symbol /\ batch[t].asks \in SUBSET Symbol
      BY <3>a, <2>b, BusyFields, SnapshotConstants
    <3>1. batch'[t] = b
      <4>1. batch'[t] = [batch[t] EXCEPT !.held = @ + 1,
                           !.quote = [s \in Symbol |-> AgedQuote(@[s])]]
        BY <2>2 DEF SnapshotTick
      <4>2. batch[t] = [at |-> batch[t].at, asks |-> batch[t].asks,
                        quote |-> batch[t].quote, puts |-> batch[t].puts,
                        half |-> batch[t].half, held |-> batch[t].held,
                        gave |-> batch[t].gave, lacked |-> batch[t].lacked]
        BY <2>b, <3>a, BusyFields
      <4> QED
        BY <4>1, <4>2
    <3>2. ASSUME NEW s \in Symbol
          PROVE  /\ q[s] \in Quote
                 /\ q[s].age <= Oldest(q[s].source, batch[t].held + 1)
                 /\ q[s].source = batch[t].quote[s].source
                 /\ q[s] = Missing => batch[t].quote[s] = Missing
      <4>1. batch[t].quote[s] \in Quote
            /\ batch[t].quote[s].age <= Oldest(batch[t].quote[s].source, batch[t].held)
        BY <3>a, <3>h, <2>b DEF RecordOK, AgesOK
      <4>2. CASE batch[t].quote[s] = Missing
        BY <4>2, <3>h DEF AgedQuote, Missing, Quote, Oldest
      <4>3. CASE batch[t].quote[s] # Missing
        <5>1. batch[t].quote[s] \in [source : {"cache", "provider", "stale_cache"},
                                     age : 0 .. StaleTTL + 2 * MaxHold]
          BY <4>1, <4>3 DEF Quote
        <5>2. q[s] = [source |-> batch[t].quote[s].source,
                      age |-> batch[t].quote[s].age + 1]
          BY <4>3, <5>1 DEF AgedQuote
        <5>3. batch[t].quote[s].age + 1 <=
                Oldest(batch[t].quote[s].source, batch[t].held + 1)
          BY <4>1, <5>1, <3>h, SnapshotConstants DEF Oldest
        <5>4. Oldest(batch[t].quote[s].source, batch[t].held + 1) <= StaleTTL + 2 * MaxHold
          BY <5>1, <3>h, SnapshotConstants DEF Oldest
        <5>5. Oldest(batch[t].quote[s].source, batch[t].held + 1) \in Int
          BY <5>1, <3>h, SnapshotConstants DEF Oldest
        <5>6. batch[t].quote[s].age + 1 \in 0 .. StaleTTL + 2 * MaxHold
          BY <5>1, <5>3, <5>4, <5>5, SnapshotConstants
        <5> QED
          BY <5>1, <5>2, <5>3, <5>6 DEF Quote, Missing
      <4> QED
        BY <4>2, <4>3
    <3>3. q \in [Symbol -> Quote] /\ AgesOK(q, batch[t].held + 1)
      BY <3>2 DEF AgesOK
    <3>4. b \in Batch
      BY <3>a, <3>h, <3>3, <2>b, BusyFields DEF Batch
    <3>5. RecordOK(b)
      <4> HIDE DEF q
      <4> QED
        BY <3>2, <3>3, <3>a, <3>h, <2>b DEF RecordOK
    <3> QED
      BY <3>1, <3>4, <3>5
  <2> QED
    BY <2>1, <2>2
<1>3. batch' \in [Thread -> Batch] /\ \A o \in Thread : RecordOK(batch'[o])
  BY <1>2 DEF SnapshotTick
<1> QED
  BY <1>1, <1>3, InvAfter

LEMMA SnapshotInitial ==
  ASSUME SnapshotInit
  PROVE  SnapshotInv
<1>1. NoBatch \in Batch /\ RecordOK(NoBatch)
  BY DEF Batch, RecordOK, NoBatch
<1>2. \A TTL \in Nat : CopyOK(NoCopy, TTL)
  BY SnapshotConstants DEF CopyOK, Copy, NoCopy
<1> QED
  BY <1>1, <1>2, SnapshotConstants DEF SnapshotInit, SnapshotInv, CopyOK

LEMMA StutterStep ==
  ASSUME SnapshotInv, UNCHANGED snapshotVars
  PROVE  SnapshotInv'
<1>1. batch' \in [Thread -> Batch] /\ \A o \in Thread : RecordOK(batch'[o])
  BY DEF SnapshotInv, snapshotVars
<1> QED
  BY <1>1, CopiesKept, InvAfter DEF snapshotVars

LEMMA SnapshotInductive ==
  ASSUME SnapshotInv, [SnapshotNext]_snapshotVars
  PROVE  SnapshotInv'
<1>1. CASE UNCHANGED snapshotVars
  BY <1>1, StutterStep
<1>2. CASE SnapshotTick
  BY <1>2, SnapshotTickStep
<1>3. ASSUME NEW t \in Thread,
             \/ \E symbols \in (SUBSET Symbol) \ {{}} : BeginBatch(t, symbols)
             \/ AnswerBatch(t)
      PROVE  SnapshotInv'
  BY <1>3, BeginStep, AnswerStep
<1>4. ASSUME NEW t \in Thread, BatchStep(t)
      PROVE  SnapshotInv'
  <2>1. ASSUME NEW redis \in BOOLEAN,
               ReadFresh(t, redis) \/ EndPut(t, redis) \/ ReadStale(t, redis)
        PROVE  SnapshotInv'
    BY <2>1, ReadFreshStep, EndPutStep, ReadStaleStep
  <2>2. ASSUME NEW symbols \in SUBSET Symbol, Fetch(t, symbols)
        PROVE  SnapshotInv'
    BY <2>2, FetchStep
  <2>3. ASSUME NEW s \in Symbol, NEW done \in BOOLEAN,
               PutFresh(t, s, done) \/ PutStale(t, s, done)
        PROVE  SnapshotInv'
    BY <2>3, PutFreshStep, PutStaleStep
  <2> QED
    BY <1>4, <2>1, <2>2, <2>3 DEF BatchStep
<1> QED
  BY <1>1, <1>2, <1>3, <1>4 DEF SnapshotNext

LEMMA SnapshotInvariance == SnapshotSpec => []SnapshotInv
<1>1. SnapshotInit => SnapshotInv
  BY SnapshotInitial
<1>2. SnapshotInv /\ [SnapshotNext]_snapshotVars => SnapshotInv'
  BY SnapshotInductive
<1> QED
  BY <1>1, <1>2, PTL DEF SnapshotSpec

-----------------------------------------------------------------------------

\* The copies in Redis and the requests have the types the code gives them
\* (market_snapshot_cache.py, market_batch.py).
THEOREM SnapshotsTyped == SnapshotSpec => []SnapshotTypeOK
<1>1. SnapshotInv => SnapshotTypeOK
  BY DEF SnapshotInv, SnapshotTypeOK
<1> QED
  BY <1>1, SnapshotInvariance, PTL

\* No answer of the batch endpoint holds a quote older than its TTL and the
\* durations of the requests that wrote and read it (market_batch.py 56-297).
THEOREM AgesBounded == SnapshotSpec => []ServedAgeBounded
<1>1. SnapshotInv => ServedAgeBounded
  BY DEF SnapshotInv, RecordOK, AgesOK, ServedAgeBounded, BatchAt, Batch, NoBatch
<1> QED
  BY <1>1, SnapshotInvariance, PTL

\* What the provider returned is answered whatever Redis does, and only what it did
\* not return and Redis did not have is answered with an error (market_batch.py 56-297).
THEOREM RedisOptional == SnapshotSpec => []RedisIsOptional
<1>1. SnapshotInv => RedisIsOptional
  BY DEF SnapshotInv, RecordOK, RedisIsOptional, BatchAt
<1> QED
  BY <1>1, SnapshotInvariance, PTL

-----------------------------------------------------------------------------
(* Valuations.                                                              *)

\* Two states of the book differ by no more positions than there were trades
\* between them.
BookOK == \A i, j \in 1 .. Len(book) : i <= j =>
  Cardinality(book[j]) - Cardinality(book[i]) \in i - j .. j - i

\* The positions of an account that is being priced are all of those of a state no
\* older than that of its cash; without a refusal all of them have a price.
ValueOK(v) ==
  v.at # "idle" /\ v.kind = "account" =>
    /\ v.at # "account" => v.cash \in 1 .. Len(book)
    /\ v.at \in {"price", "valued"} =>
         \E j \in v.cash .. Len(book) : v.positions = {US} \X book[j]
    /\ v.at = "valued" /\ ~v.refused => v.priced = v.positions

ValuationInv ==
  /\ SnapshotInv
  /\ book \in Seq(SUBSET Symbol) /\ Len(book) \in 1 .. MaxTrade + 1
  /\ value \in [Thread -> Value]
  /\ BookOK
  /\ \A t \in Thread : ValueOK(value[t])

\* A state of the book has so many positions.
LEMMA BookCounts ==
  ASSUME NEW open \in SUBSET Symbol
  PROVE  /\ IsFiniteSet(open) /\ Cardinality(open) \in Nat
         /\ Cardinality({US} \X open) = Cardinality(open)
<1>1. IsFiniteSet(open) /\ Cardinality(open) \in Nat
  BY ValuationAssumption, FS_Subset, FS_CardinalityType
<1>2. Cardinality({US} \X open) = Cardinality({US}) * Cardinality(open)
  BY <1>1, FS_Singleton, FS_Product
<1>3. Cardinality({US}) = 1
  BY FS_Singleton
<1> QED BY <1>1, <1>2, <1>3

\* What the steps of a valuation do to the batch quotes is a step of theirs, or none.
LEMMA ValuationIsSnapshotStep ==
  ASSUME ValuationInv, [ValuationNext]_valuationVars
  PROVE  [SnapshotNext]_snapshotVars
<1>1. ASSUME Batches PROVE SnapshotNext
  BY <1>1 DEF Batches, SnapshotNext
<1>2. ASSUME NEW t \in Thread, ReadPositions(t) \/
               \E positions \in SUBSET Instrument : BeginPortfolio(t, positions)
      PROVE  [SnapshotNext]_snapshotVars
  <2>1. PICK positions : AskPrices(t, positions)
    BY <1>2 DEF ReadPositions, BeginPortfolio
  <2>2. PriceableIn(positions) \in SUBSET Symbol
    BY DEF PriceableIn
  <2>3. CASE PriceableIn(positions) = {}
    BY <2>1, <2>3 DEF AskPrices
  <2>4. CASE PriceableIn(positions) # {}
    <3>1. BeginBatch(t, PriceableIn(positions))
      BY <2>1, <2>4 DEF AskPrices
    <3>2. \E symbols \in (SUBSET Symbol) \ {{}} : BeginBatch(t, symbols)
      BY <2>2, <2>4, <3>1
    <3> QED BY <3>2 DEF SnapshotNext
  <2> QED BY <2>3, <2>4
<1>3. ASSUME NEW t \in Thread, NEW positive \in SUBSET Symbol, Conclude(t, positive)
      PROVE  [SnapshotNext]_snapshotVars
  <2>1. CASE BatchAt(t, "done")
    BY <1>3, <2>1 DEF Conclude, AnswerBatch, SnapshotNext
  <2>2. CASE BatchAt(t, "idle")
    <3>1. batch[t] = NoBatch
      BY <2>2 DEF BatchAt, ValuationInv, SnapshotInv, Batch, NoBatch
    <3>2. batch \in [Thread -> Batch] /\ batch' = [batch EXCEPT ![t] = NoBatch]
      BY <1>3 DEF Conclude, ValuationInv, SnapshotInv
    <3>3. batch' = batch
      BY <3>1, <3>2
    <3> QED BY <1>3, <3>3 DEF Conclude, snapshotVars
  <2> QED BY <1>3, <2>1, <2>2 DEF Conclude
<1>4. ASSUME \/ \E s \in Symbol : CommitOneTrade(s)
             \/ \E t \in Thread : BeginAccount(t) \/ ReadAccount(t) \/ AnswerValue(t)
             \/ UNCHANGED valuationVars
      PROVE  UNCHANGED snapshotVars
  BY <1>4 DEF CommitOneTrade, BeginAccount, ReadAccount, AnswerValue, valuationVars
<1> QED
  BY <1>1, <1>2, <1>3, <1>4 DEF ValuationNext

LEMMA ValuationInitial == ValuationInit => ValuationInv
<1> SUFFICES ASSUME ValuationInit PROVE ValuationInv
  OBVIOUS
<1>1. SnapshotInv
  BY SnapshotInitial DEF ValuationInit
<1>2. book \in Seq(SUBSET Symbol) /\ Len(book) = 1 /\ book[1] = {}
  BY DEF ValuationInit
<1>3. BookOK
  <2>1. 1 .. Len(book) = {1} /\ Cardinality(book[1]) = 0
    BY <1>2, FS_EmptySet
  <2> QED BY <2>1 DEF BookOK
<1>4. value \in [Thread -> Value] /\ \A t \in Thread : ValueOK(value[t])
  BY DEF ValuationInit, Value, NoValue, ValueOK
<1> QED
  BY <1>1, <1>2, <1>3, <1>4, ValuationAssumption DEF ValuationInv

\* One more trade: the book grows by a state one position apart from the last.
LEMMA TradeStep ==
  ASSUME ValuationInv, NEW s \in Symbol, CommitOneTrade(s)
  PROVE  /\ book' \in Seq(SUBSET Symbol) /\ Len(book') \in 1 .. MaxTrade + 1
         /\ BookOK' /\ \A t \in Thread : ValueOK(value[t])'
<1> DEFINE n == Len(book)
           open == book[n]
           next == IF s \in open THEN open \ {s} ELSE open \cup {s}
<1>1. n \in Nat /\ n >= 1 /\ n <= MaxTrade /\ open \in SUBSET Symbol
      /\ next \in SUBSET Symbol /\ MaxTrade \in Nat
  BY ValuationAssumption DEF ValuationInv, CommitOneTrade
<1>2. /\ book' = Append(book, next) /\ book' \in Seq(SUBSET Symbol)
      /\ Len(book') = n + 1 /\ book'[n + 1] = next
      /\ \A i \in 1 .. n : book'[i] = book[i]
  BY <1>1 DEF ValuationInv, CommitOneTrade
<1>3. Cardinality(next) - Cardinality(open) \in {-1, 1}
  <2> HIDE DEF n
  <2>1. IsFiniteSet(open) /\ Cardinality(open) \in Nat
    BY <1>1, BookCounts
  <2>2. CASE s \in open
    <3>1. next = open \ {s} /\ Cardinality(open \ {s}) = Cardinality(open) - 1
      BY <2>1, <2>2, FS_RemoveElement
    <3> QED BY <2>1, <3>1
  <2>3. CASE s \notin open
    <3>1. next = open \cup {s} /\ Cardinality(open \cup {s}) = Cardinality(open) + 1
      BY <2>1, <2>3, FS_AddElement
    <3> QED BY <2>1, <3>1
  <2> QED BY <2>2, <2>3
<1>4. \A i \in 1 .. n + 1 : book'[i] \in SUBSET Symbol
  BY <1>2
<1>5. \A i \in 1 .. n + 1 : Cardinality(book'[i]) \in Nat
  BY <1>4, BookCounts
<1>6. \A i, j \in 1 .. n : i <= j =>
        Cardinality(book'[j]) - Cardinality(book'[i]) \in i - j .. j - i
  BY <1>2 DEF ValuationInv, BookOK
<1>7. ASSUME NEW i \in 1 .. n
      PROVE  Cardinality(book'[n + 1]) - Cardinality(book'[i])
               \in i - (n + 1) .. (n + 1) - i
  <2>1. Cardinality(book'[n]) - Cardinality(book'[i]) \in i - n .. n - i
    BY <1>1, <1>6
  <2>2. Cardinality(book'[n + 1]) - Cardinality(book'[n]) \in {-1, 1}
    BY <1>1, <1>2, <1>3
  <2>3. /\ Cardinality(book'[n + 1]) \in Nat /\ Cardinality(book'[n]) \in Nat
        /\ Cardinality(book'[i]) \in Nat
    BY <1>1, <1>5
  <2> HIDE DEF n
  <2> QED BY <1>1, <2>1, <2>2, <2>3
<1>8. BookOK'
  <2> SUFFICES ASSUME NEW i \in 1 .. n + 1, NEW j \in 1 .. n + 1, i <= j
               PROVE  Cardinality(book'[j]) - Cardinality(book'[i]) \in i - j .. j - i
    BY <1>2 DEF BookOK
  <2>0. n \in Nat
    BY <1>1
  <2> HIDE DEF n, open, next
  <2>1. CASE j <= n
    <3>1. i \in 1 .. n /\ j \in 1 .. n
      BY <2>0, <2>1
    <3> QED BY <1>6, <3>1
  <2>2. CASE j = n + 1 /\ i <= n
    <3>1. i \in 1 .. n
      BY <2>0, <2>2
    <3> QED BY <1>7, <2>2, <3>1
  <2>3. CASE j = n + 1 /\ i = n + 1
    BY <1>5, <2>0, <2>3
  <2> QED BY <2>0, <2>1, <2>2, <2>3
<1>9. ASSUME NEW t \in Thread PROVE ValueOK(value[t])'
  <2>1. ValueOK(value[t]) /\ value'[t] = value[t] /\ value[t] \in Value
    BY DEF ValuationInv, CommitOneTrade
  <2>2. ASSUME NEW j \in value[t].cash .. n, value[t].cash \in 1 .. n
        PROVE  j \in value[t].cash .. n + 1 /\ book'[j] = book[j]
    BY <1>1, <1>2, <2>2
  <2> QED BY <1>1, <1>2, <2>1, <2>2 DEF ValueOK
<1> QED
  BY <1>1, <1>2, <1>8, <1>9

\* What a step makes of one thread's valuation, the book and the others as they were.
LEMMA ValueSteps ==
  ASSUME ValuationInv, [ValuationNext]_valuationVars,
         \A s \in Symbol : ~CommitOneTrade(s)
  PROVE  /\ book' = book
         /\ value' \in [Thread -> Value]
         /\ \A t \in Thread : ValueOK(value[t])'
<1>1. /\ book \in Seq(SUBSET Symbol) /\ Len(book) \in 1 .. MaxTrade + 1
      /\ MaxTrade \in Nat
      /\ value \in [Thread -> Value] /\ \A t \in Thread : ValueOK(value[t])
  BY ValuationAssumption DEF ValuationInv
<1>2. ASSUME NEW t \in Thread, NEW v \in Value, value' = [value EXCEPT ![t] = v],
             book' = book, ValueOK(v)
      PROVE  /\ book' = book
             /\ value' \in [Thread -> Value]
             /\ \A r \in Thread : ValueOK(value[r])'
  <2>1. \A r \in Thread : value'[r] = IF r = t THEN v ELSE value[r]
    BY <1>1, <1>2
  <2> QED BY <1>1, <1>2, <2>1 DEF ValueOK
<1>3. ASSUME NEW t \in Thread, BeginAccount(t)
      PROVE  /\ book' = book /\ value' \in [Thread -> Value]
             /\ \A r \in Thread : ValueOK(value[r])'
  <2> DEFINE v == [at |-> "account", kind |-> "account", cash |-> 0, positions |-> {},
                   priced |-> {}, refused |-> FALSE]
  <2>1. v \in Value /\ ValueOK(v)
    BY <1>1 DEF Value, ValueOK
  <2> QED BY <1>2, <1>3, <2>1 DEF BeginAccount
<1>4. ASSUME NEW t \in Thread, NEW positions \in SUBSET Instrument,
             BeginPortfolio(t, positions)
      PROVE  /\ book' = book /\ value' \in [Thread -> Value]
             /\ \A r \in Thread : ValueOK(value[r])'
  <2> DEFINE v == [at |-> "price", kind |-> "portfolio", cash |-> 0,
                   positions |-> positions, priced |-> {}, refused |-> FALSE]
  <2>1. v \in Value /\ ValueOK(v)
    BY <1>1 DEF Value, ValueOK
  <2> QED BY <1>2, <1>4, <2>1 DEF BeginPortfolio
<1>5. ASSUME NEW t \in Thread, ReadAccount(t)
      PROVE  /\ book' = book /\ value' \in [Thread -> Value]
             /\ \A r \in Thread : ValueOK(value[r])'
  <2> DEFINE v == [value[t] EXCEPT !.at = "positions", !.cash = Len(book)]
  <2>1. value[t] \in Value \ {NoValue} /\ Len(book) \in 0 .. MaxTrade + 1
    BY <1>1, <1>5 DEF ReadAccount, ValueAt, NoValue
  <2>2. v \in Value /\ v.at = "positions" /\ v.cash = Len(book)
    BY <2>1 DEF Value
  <2> HIDE DEF v
  <2>3. ValueOK(v)
    BY <1>1, <2>2 DEF ValueOK
  <2>4. value' = [value EXCEPT ![t] = v] /\ book' = book
    BY <1>1, <1>5 DEF ReadAccount, v
  <2> QED BY <1>2, <2>2, <2>3, <2>4
<1>6. ASSUME NEW t \in Thread, ReadPositions(t)
      PROVE  /\ book' = book /\ value' \in [Thread -> Value]
             /\ \A r \in Thread : ValueOK(value[r])'
  <2> DEFINE v == [value[t] EXCEPT !.at = "price", !.positions = {US} \X book[Len(book)]]
  <2>1. value[t] \in Value \ {NoValue} /\ value[t].at = "positions"
    BY <1>1, <1>6 DEF ReadPositions, ValueAt, NoValue
  <2>2. {US} \X book[Len(book)] \in SUBSET Instrument
    <3>1. book[Len(book)] \in SUBSET Symbol
      BY <1>1
    <3> QED BY <3>1, ValuationAssumption DEF Instrument
  <2>3. v \in Value
    BY <2>1, <2>2 DEF Value
  <2>4. ValueOK(v)
    <3>0. /\ v.at = "price" /\ v.kind = value[t].kind /\ v.cash = value[t].cash
          /\ v.positions = {US} \X book[Len(book)]
      BY <2>1 DEF Value
    <3> SUFFICES ASSUME value[t].kind = "account"
                 PROVE  /\ value[t].cash \in 1 .. Len(book)
                        /\ \E j \in value[t].cash .. Len(book) :
                             {US} \X book[Len(book)] = {US} \X book[j]
      BY <3>0 DEF ValueOK
    <3>1. value[t].cash \in 1 .. Len(book)
      BY <1>1, <2>1 DEF ValueOK
    <3>2. Len(book) \in value[t].cash .. Len(book)
      BY <1>1, <3>1
    <3> QED BY <3>1, <3>2
  <2>5. value' = [value EXCEPT ![t] = v] /\ book' = book
    BY <1>1, <1>6 DEF ReadPositions
  <2> QED BY <1>2, <2>3, <2>4, <2>5
<1>7. ASSUME NEW t \in Thread, NEW positive \in SUBSET Symbol, Conclude(t, positive)
      PROVE  /\ book' = book /\ value' \in [Thread -> Value]
             /\ \A r \in Thread : ValueOK(value[r])'
  <2> DEFINE priced == Priced(t, positive)
             v == [value[t] EXCEPT !.at = "valued", !.priced = priced,
                                   !.refused = Refused(t, priced)]
  <2>1. value[t] \in Value \ {NoValue} /\ value[t].at = "price"
    BY <1>1, <1>7 DEF Conclude, ValueAt, NoValue
  <2>2. priced \subseteq value[t].positions /\ Refused(t, priced) \in BOOLEAN
    BY DEF Priced, Refused
  <2>3. ~Refused(t, priced) /\ value[t].kind = "account" => priced = value[t].positions
    BY <2>2 DEF Refused, MissingQuotes
  <2> HIDE DEF priced
  <2>4. v \in Value
    BY <2>1, <2>2 DEF Value
  <2>5. /\ v.at = "valued" /\ v.kind = value[t].kind /\ v.cash = value[t].cash
        /\ v.positions = value[t].positions /\ v.priced = priced
        /\ v.refused = Refused(t, priced)
    BY <2>1 DEF Value
  <2> HIDE DEF v
  <2>6. ValueOK(v)
    BY <1>1, <2>1, <2>3, <2>5 DEF ValueOK
  <2>7. value' = [value EXCEPT ![t] = v] /\ book' = book
    BY <1>1, <1>7 DEF Conclude, v, priced
  <2> QED BY <1>2, <2>4, <2>6, <2>7
<1>8. ASSUME NEW t \in Thread, AnswerValue(t)
      PROVE  /\ book' = book /\ value' \in [Thread -> Value]
             /\ \A r \in Thread : ValueOK(value[r])'
  <2>1. NoValue \in Value /\ ValueOK(NoValue)
    BY DEF Value, NoValue, ValueOK
  <2> QED BY <1>2, <1>8, <2>1 DEF AnswerValue
<1>9. ASSUME Batches \/ UNCHANGED valuationVars
      PROVE  /\ book' = book /\ value' \in [Thread -> Value]
             /\ \A r \in Thread : ValueOK(value[r])'
  <2>1. book' = book /\ value' = value
    BY <1>9 DEF Batches, valuationVars
  <2> QED BY <1>1, <2>1 DEF ValueOK
<1> QED
  BY <1>3, <1>4, <1>5, <1>6, <1>7, <1>8, <1>9 DEF ValuationNext

LEMMA ValuationInductive == ValuationInv /\ [ValuationNext]_valuationVars => ValuationInv'
<1> SUFFICES ASSUME ValuationInv, [ValuationNext]_valuationVars PROVE ValuationInv'
  OBVIOUS
<1>1. SnapshotInv'
  BY ValuationIsSnapshotStep, SnapshotInductive DEF ValuationInv
<1>2. CASE \E s \in Symbol : CommitOneTrade(s)
  <2>1. value' = value
    BY <1>2 DEF CommitOneTrade
  <2> QED BY <1>1, <1>2, <2>1, TradeStep DEF ValuationInv
<1>3. CASE \A s \in Symbol : ~CommitOneTrade(s)
  <2>1. book' = book
    BY <1>3, ValueSteps
  <2>2. BookOK'
    BY <2>1 DEF ValuationInv, BookOK
  <2> QED BY <1>1, <1>3, <2>1, <2>2, ValueSteps DEF ValuationInv
<1> QED BY <1>2, <1>3

LEMMA ValuationInvariance == ValuationSpec => []ValuationInv
BY ValuationInitial, ValuationInductive, PTL DEF ValuationSpec

\* Valuations use the batch quotes as any request does: what is proved of those
\* holds while accounts and portfolios are valued.
THEOREM ValuationsUseSnapshots == ValuationSpec => SnapshotSpec
<1>1. ValuationInit => SnapshotInit
  BY DEF ValuationInit
<1>2. ValuationInv /\ [ValuationNext]_valuationVars => [SnapshotNext]_snapshotVars
  BY ValuationIsSnapshotStep
<1> QED
  BY <1>1, <1>2, ValuationInvariance, PTL DEF ValuationSpec, SnapshotSpec

\* The book, the valuations and the quotes they use are well typed.
THEOREM ValuationsTyped == ValuationSpec => []ValuationTypeOK
<1>1. ValuationInv => ValuationTypeOK
  BY DEF ValuationInv, ValuationTypeOK, SnapshotInv, SnapshotTypeOK
<1> QED
  BY <1>1, ValuationInvariance, PTL

\* The value an account is answered with has cash and positions of two committed
\* states, the positions no earlier, all of them with a price, and its equity is off
\* by no more than the trades that committed between its two SELECTs
\* (trading_portfolio_service.py 123-277).
THEOREM EquityAccountedFor == ValuationSpec => []EquityExplained
<1>1. ASSUME ValuationInv, NEW t \in Thread,
             ValueAt(t, "valued"), value[t].kind = "account", ~value[t].refused
      PROVE  \E j \in value[t].cash .. Len(book) :
               /\ value[t].priced = {US} \X book[j]
               /\ Equity(t) \in value[t].cash - j .. j - value[t].cash
  <2> DEFINE i == value[t].cash
  <2>1. ValueOK(value[t]) /\ value[t].at = "valued" /\ book \in Seq(SUBSET Symbol)
    BY <1>1 DEF ValuationInv, ValueAt
  <2>2. i \in 1 .. Len(book) /\ value[t].priced = value[t].positions
    BY <1>1, <2>1 DEF ValueOK
  <2>3. PICK j \in i .. Len(book) : value[t].positions = {US} \X book[j]
    BY <1>1, <2>1 DEF ValueOK
  <2>4. j \in 1 .. Len(book) /\ i <= j /\ book[j] \in SUBSET Symbol
    BY <2>1, <2>2, <2>3
  <2>5. Equity(t) = Cardinality(book[j]) - Cardinality(book[i])
    BY <2>2, <2>3, <2>4, BookCounts DEF Equity
  <2>6. Cardinality(book[j]) - Cardinality(book[i]) \in i - j .. j - i
    BY <1>1, <2>2, <2>4 DEF ValuationInv, BookOK
  <2> QED BY <2>2, <2>3, <2>5, <2>6
<1>2. ValuationInv => EquityExplained
  BY <1>1 DEF EquityExplained
<1> QED
  BY <1>2, ValuationInvariance, PTL
=============================================================================
