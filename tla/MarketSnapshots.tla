--------------------------- MODULE MarketSnapshots -----------------------------
(***************************************************************************)
(* Batch quotes: services/api/market_batch.py over Redis                   *)
(* (market_snapshot_cache.py) and the provider (twelve_data.py).           *)
(*                                                                         *)
(* A request reads the fresh copies, asks the provider for the symbols     *)
(* that have none, writes what it got to Redis, reads the stale copies of  *)
(* what is still missing, and answers.  Redis may fail at every step, and  *)
(* other requests write the same keys between any two commands.            *)
(*                                                                         *)
(* Time is relative: a quote has the time since the provider returned it,  *)
(* a copy in Redis also what is left of its TTL.                           *)
(***************************************************************************)
EXTENDS ApiThreads

CONSTANTS
  NoSymbol,
  FreshTTL,   \* fresh_ttl_seconds
  StaleTTL    \* stale_ttl_seconds

ASSUME SnapshotAssumption ==
  /\ NoSymbol \notin Symbol
  /\ FreshTTL \in Nat \ {0} /\ StaleTTL \in Nat /\ StaleTTL > FreshTTL

VARIABLES
  fresh,      \* per symbol: the copy under its fresh key
  stale,      \*             and under its stale key
  batch       \* the batch request of each thread

snapshotVars == <<fresh, stale, batch>>

Copy(TTL) == {NoCopy} \cup
  [age : 0 .. TTL + MaxHold, left : 1 .. TTL]

\* What a request has for a symbol, from where, and its age.
Missing == [source |-> "none", age |-> 0]
Quote == {Missing} \cup
  [source : {"cache", "provider", "stale_cache"}, age : 0 .. StaleTTL + 2 * MaxHold]

NoBatch == [at |-> "idle"]
Batch == {NoBatch} \cup
  [at : {"fresh", "provider", "put", "stale", "done"},
   asks : SUBSET Symbol,
   quote : [Symbol -> Quote],
   puts : SUBSET Symbol,               \* quotes put_many has not written yet
   half : Symbol \cup {NoSymbol},      \* its fresh copy written, not its stale one
   held : 0 .. MaxHold,                \* time since the request began
   gave : SUBSET Symbol,               \* ghost: what the provider returned,
   lacked : SUBSET Symbol]             \*        what had no stale copy when read

SnapshotTypeOK ==
  /\ fresh \in [Symbol -> Copy(FreshTTL)]
  /\ stale \in [Symbol -> Copy(StaleTTL)]
  /\ batch \in [Thread -> Batch]

SnapshotInit ==
  /\ fresh = [s \in Symbol |-> NoCopy]
  /\ stale = [s \in Symbol |-> NoCopy]
  /\ batch = [t \in Thread |-> NoBatch]

-----------------------------------------------------------------------------

BatchAt(t, stage) == batch[t].at = stage

\* The symbols of a request it has no quote for.
Unresolved(t) == {s \in batch[t].asks : batch[t].quote[s] = Missing}

\* Thread t goes on with these quotes: to the first stage if some symbol is
\* unresolved, else to the second.
GoOn(t, quote, unresolved, resolved) ==
  batch' = [batch EXCEPT ![t].quote = quote,
              ![t].at = IF \E s \in batch[t].asks : quote[s] = Missing
                        THEN unresolved ELSE resolved]

BeginBatch(t, symbols) ==
  /\ BatchAt(t, "idle")
  /\ batch' = [batch EXCEPT ![t] =
       [at |-> "fresh", asks |-> symbols, quote |-> [s \in Symbol |-> Missing],
        puts |-> {}, half |-> NoSymbol, held |-> 0, gave |-> {}, lacked |-> {}]]
  /\ UNCHANGED <<fresh, stale>>

\* The copies of some symbols, as quotes.
Copies(t, tier, source, symbols) ==
  [s \in Symbol |->
     IF s \in symbols /\ tier[s] # NoCopy
     THEN [source |-> source, age |-> tier[s].age]
     ELSE batch[t].quote[s]]

\* get_fresh_many, one MGET; a RedisError leaves every symbol unresolved.
ReadFresh(t, redis) ==
  /\ BatchAt(t, "fresh")
  /\ GoOn(t, Copies(t, fresh, "cache", IF redis THEN batch[t].asks ELSE {}),
          "provider", "done")
  /\ UNCHANGED <<fresh, stale>>

\* The sets of symbols the provider may have quotes for: a symbol that is not in
\* its answer, rejected, malformed or not the one expected is left out.
Returnable(t) == SUBSET Unresolved(t)

\* get_quotes of the provider; when the whole request fails it has none.
Fetch(t, symbols) ==
  /\ BatchAt(t, "provider")
  /\ symbols \in Returnable(t)
  /\ batch' = [batch EXCEPT
       ![t].at = IF symbols = {} THEN "stale" ELSE "put",
       ![t].quote = [s \in Symbol |-> IF s \in symbols
                                      THEN [source |-> "provider", age |-> 0]
                                      ELSE @[s]],
       ![t].puts = symbols,
       ![t].gave = symbols]
  /\ UNCHANGED <<fresh, stale>>

\* Mutant: both keys live as long as the stale one.
WrittenToLast(t, s, TTL, copy, done) ==
  IF done THEN [age |-> batch[t].quote[s].age, left |-> StaleTTL] ELSE copy

\* A command of the pipeline takes effect, or fails.
Written(t, s, TTL, copy, done) ==
  IF done THEN [age |-> batch[t].quote[s].age, left |-> TTL] ELSE copy

\* put_many sets the fresh and then the stale key of one quote after another;
\* commands of other clients come in between.
PutFresh(t, s, done) ==
  /\ BatchAt(t, "put") /\ batch[t].half = NoSymbol /\ s \in batch[t].puts
  /\ fresh' = [fresh EXCEPT ![s] = Written(t, s, FreshTTL, @, done)]
  /\ batch' = [batch EXCEPT ![t].half = s]
  /\ UNCHANGED stale

PutStale(t, s, done) ==
  /\ BatchAt(t, "put") /\ batch[t].half = s
  /\ stale' = [stale EXCEPT ![s] = Written(t, s, StaleTTL, @, done)]
  /\ batch' = [batch EXCEPT ![t].half = NoSymbol, ![t].puts = @ \ {s}]
  /\ UNCHANGED fresh

\* Mutant: the error of put_many is taken for an error of the provider.
EndPutForgetting(t, redis) ==
  /\ BatchAt(t, "put")
  /\ redis => batch[t].puts = {}
  /\ GoOn(t, IF redis THEN batch[t].quote
             ELSE [s \in Symbol |-> IF s \in batch[t].gave THEN Missing
                                    ELSE batch[t].quote[s]],
          "stale", "done")
  /\ UNCHANGED <<fresh, stale>>

\* put_many is done, or a RedisError ends it: the request goes on all the same.
EndPut(t, redis) ==
  /\ BatchAt(t, "put")
  /\ redis => batch[t].puts = {}
  /\ GoOn(t, batch[t].quote, "stale", "done")
  /\ UNCHANGED <<fresh, stale>>

\* get_stale_many, of what the provider did not return.
ReadStale(t, redis) ==
  /\ BatchAt(t, "stale")
  /\ batch' = [batch EXCEPT
       ![t].at = "done",
       ![t].quote = Copies(t, stale, "stale_cache",
                           IF redis THEN Unresolved(t) ELSE {}),
       ![t].lacked = IF redis THEN {s \in Unresolved(t) : stale[s] = NoCopy}
                     ELSE Symbol]
  /\ UNCHANGED <<fresh, stale>>

\* The response is sent: "ok" for quotes of the cache and the provider, "stale"
\* for those of the stale cache, "error" for the others.
AnswerBatch(t) ==
  /\ BatchAt(t, "done")
  /\ batch' = [batch EXCEPT ![t] = NoBatch]
  /\ UNCHANGED <<fresh, stale>>

-----------------------------------------------------------------------------

AgedQuote(quote) ==
  IF quote = Missing THEN Missing ELSE [quote EXCEPT !.age = @ + 1]

\* Time passes; no request takes longer than MaxHold.
SnapshotTick ==
  /\ \A t \in Thread : ~BatchAt(t, "idle") => batch[t].held < MaxHold
  /\ fresh' = [s \in Symbol |-> Aged(fresh[s])]
  /\ stale' = [s \in Symbol |-> Aged(stale[s])]
  /\ batch' = [t \in Thread |->
       IF BatchAt(t, "idle") THEN NoBatch
       ELSE [batch[t] EXCEPT !.held = @ + 1,
               !.quote = [s \in Symbol |-> AgedQuote(@[s])]]]

\* What a thread does after its request began, until it can answer.
BatchStep(t) ==
  \/ \E redis \in BOOLEAN : ReadFresh(t, redis)
  \/ \E symbols \in SUBSET Symbol : Fetch(t, symbols)
  \/ \E s \in Symbol, done \in BOOLEAN : PutFresh(t, s, done)
  \/ \E s \in Symbol, done \in BOOLEAN : PutStale(t, s, done)
  \/ \E redis \in BOOLEAN : EndPut(t, redis)
  \/ \E redis \in BOOLEAN : ReadStale(t, redis)

SnapshotNext ==
  \/ \E t \in Thread : \/ \E symbols \in (SUBSET Symbol) \ {{}} : BeginBatch(t, symbols)
                       \/ BatchStep(t)
                       \/ AnswerBatch(t)
  \/ SnapshotTick

SnapshotSpec == SnapshotInit /\ [][SnapshotNext]_snapshotVars

-----------------------------------------------------------------------------

\* How old a quote from a source may be when the request has been held that long:
\* a copy is written up to MaxHold after its quote was returned and lives its TTL.
Oldest(source, held) ==
  CASE source = "provider"    -> held
    [] source = "cache"       -> FreshTTL + MaxHold - 1 + held
    [] source = "stale_cache" -> StaleTTL + MaxHold - 1 + held
    [] OTHER                  -> 0

\* Whatever requests write the same keys in whatever order, and however long a
\* slow one keeps what it fetched before it writes it, no answer holds a quote
\* older than its TTL and the durations of the request that wrote it and of the
\* one that read it (market_snapshot_cache.py 190-233, market_batch.py 56-297).
ServedAgeBounded ==
  \A t \in Thread : ~BatchAt(t, "idle") =>
    \A s \in Symbol :
      batch[t].quote[s].age <= Oldest(batch[t].quote[s].source, batch[t].held)

\* "Redis is treated as an optimization layer rather than a mandatory dependency
\* of market-data availability" (market_batch.py 40-41): what the provider returned
\* is answered whatever Redis did, and a symbol is only answered with an error if
\* the provider did not return it and Redis had no stale copy, or failed.
RedisIsOptional ==
  \A t \in Thread : BatchAt(t, "done") =>
    \A s \in batch[t].asks :
      /\ s \in batch[t].gave => batch[t].quote[s].source = "provider"
      /\ batch[t].quote[s] = Missing => s \in batch[t].lacked
=============================================================================
