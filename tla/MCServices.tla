------------------------------ MODULE MCServices -------------------------------
(***************************************************************************)
(* The services of the API and the market ingestor that share no state,    *)
(* one at a time: a behaviour chooses one and leaves the others as they    *)
(* were.  What holds of one then holds of it in a process that runs all,   *)
(* and the instances add up rather than multiply.  Batch quotes and        *)
(* valuations are chosen twice: several requests for one symbol, and one   *)
(* request at a time for several.                                          *)
(***************************************************************************)
EXTENDS Watchlist, TradingAccounts, Valuation, News, QuoteFlow, MarketRunner

CONSTANTS First, FirstSymbol   \* the only thread, the only symbol, of some

VARIABLE service               \* the one that is chosen

servicesVars ==
  <<service, watchlistVars, accountVars, valuationVars, newsVars, quoteVars, runnerVars>>

Others(chosen) ==
  /\ UNCHANGED service
  /\ chosen # "watchlist" => UNCHANGED watchlistVars
  /\ chosen # "accounts"  => UNCHANGED accountVars
  /\ chosen # "valuation" => UNCHANGED valuationVars
  /\ chosen # "news"      => UNCHANGED newsVars
  /\ chosen # "quotes"    => UNCHANGED quoteVars
  /\ chosen # "runner"    => UNCHANGED runnerVars

\* Threads other than the first have no request.
OneThread == \A t \in Thread \ {First} :
  watch[t].at = "idle" /\ value[t].at = "idle" /\ batch[t].at = "idle"
    /\ news[t].at = "idle" /\ trading[t].at = "idle"

\* Requests are for the first symbol.
OneSymbol ==
  /\ \A t \in Thread : BatchAt(t, "idle") \/ batch[t].asks = {FirstSymbol}
  /\ \A t \in Thread : TradingAt(t, "idle") \/ trading[t].symbol = FirstSymbol
  /\ \A t \in Thread : value[t] # NoValue =>
       value[t].positions \subseteq Market \X {FirstSymbol}
  /\ \A i \in DOMAIN book : book[i] \subseteq {FirstSymbol}
  /\ ingest = NoIngest \/ ingest.symbol = FirstSymbol
  /\ \A s \in Symbol \ {FirstSymbol} : quotes[s] = NoCopy

ServicesInit ==
  /\ service \in {"watchlist", "accounts", "many requests", "many symbols",
                  "news", "quotes", "runner"}
  /\ WatchlistInit /\ AccountInit /\ ValuationInit /\ NewsInit /\ QuoteInit
  /\ RunnerInit /\ (service # "runner" => config = [mode |-> "both", max |-> 0])

ServicesNext ==
  \/ service = "watchlist" /\ WatchlistNext /\ Others("watchlist")
  \/ service = "accounts" /\ AccountNext /\ Others("accounts")
  \/ service = "many requests" /\ ValuationNext /\ Others("valuation") /\ OneSymbol'
  \/ service = "many symbols" /\ ValuationNext /\ Others("valuation") /\ OneThread'
  \/ service = "news" /\ NewsNext /\ Others("news") /\ OneThread'
  \/ service = "quotes" /\ QuoteNext /\ Others("quotes") /\ OneSymbol'
  \/ service = "runner" /\ RunnerNext /\ Others("runner")

ServicesSpec == ServicesInit /\ [][ServicesNext]_servicesVars

\* Every service keeps the types of its state.
ServicesTypeOK ==
  /\ WatchlistTypeOK /\ AccountTypeOK /\ ValuationTypeOK /\ NewsTypeOK /\ QuoteTypeOK
  /\ RunnerTypeOK
=============================================================================
