----------------------------- MODULE RiskEngine -------------------------------
(***************************************************************************)
(* The risk engine: services/risk_engine and libs/domain/risk/rules.py.    *)
(*                                                                         *)
(* One consumer reads a Kinesis shard record by record.  A quote is        *)
(* compared with the latest one of its instrument, kept in memory; a large *)
(* move is published to EventBridge as a risk alert.  When process_record  *)
(* raises, the runtime hands it the same record again; a restarted process *)
(* starts without state at the last checkpoint of the stream.  One call of *)
(* put_events sends the same entry again while its answer is lost, so      *)
(* EventBridge may accept an alert several times.                          *)
(* Trades and quotes are told apart; the bid and ask of a quote are its    *)
(* mid price here, which is all the rule looks at.                         *)
(***************************************************************************)
EXTENDS Integers, Sequences

CONSTANTS
  Instrument,
  Price,       \* mid prices
  NoQuote,     \* an instrument not seen since the start
  Warning,     \* warning_threshold_percent
  Critical,    \* critical_threshold_percent
  Attempts,    \* requests one put_events call sends at most
  MaxRecord,   \* bound on the records of the stream
  MaxTime      \* bound on their timestamps

Record == [kind : {"quote", "trade"}, instrument : Instrument,
           time : 1 .. MaxTime, price : Price]

Severity == {"NONE", "WARNING", "CRITICAL"}

ASSUME RiskAssumption ==
  /\ Price \subseteq Nat \ {0}
  /\ NoQuote \notin Record
  /\ Warning \in Nat \ {0} /\ Critical \in Nat /\ Warning < Critical
  /\ Attempts \in Nat \ {0}
  /\ MaxRecord \in Nat /\ MaxTime \in Nat

VARIABLES
  stream,      \* the records of the shard, in Kinesis order
  checkpoint,  \* the record a restarted consumer begins with
  from,        \* the record this process began with
  next,        \* the record it processes now
  latest,      \* its QuoteStateStore
  alert,       \* severity of the alert it is publishing ("NONE": none)
  tries,       \* requests of this publication that were not answered
  raised,      \* ghost: <<record, severity>> of the alerts ever decided on,
  published,   \*        of those EventBridge ever accepted,
  repeatable   \*        and of those it accepted from this process

ghosts == <<raised, published, repeatable>>
vars == <<stream, checkpoint, from, next, latest, alert, tries, ghosts>>

-----------------------------------------------------------------------------

Abs(n) == IF n < 0 THEN -n ELSE n

\* PriceMoveRule.evaluate: |current - previous| / previous * 100 percent.
MoveSeverity(previous, current) ==
  LET change == 100 * Abs(current - previous)
  IN CASE change >= Critical * previous -> "CRITICAL"
       [] change < Warning * previous   -> "NONE"
       [] OTHER                         -> "WARNING"

Alert == (1 .. MaxRecord) \X {"WARNING", "CRITICAL"}

TypeOK ==
  /\ stream \in Seq(Record) /\ Len(stream) <= MaxRecord
  /\ next \in 1 .. Len(stream) + 1
  /\ checkpoint \in 1 .. next
  /\ from \in 1 .. checkpoint
  /\ latest \in [Instrument -> Record \cup {NoQuote}]
  /\ alert \in Severity
  /\ alert # "NONE" => next <= Len(stream)
  /\ tries \in 0 .. Attempts - 1 /\ (alert = "NONE" => tries = 0)
  /\ published \subseteq raised /\ raised \subseteq Alert
  /\ repeatable \subseteq published

Init ==
  /\ stream = <<>>
  /\ checkpoint = 1 /\ from = 1 /\ next = 1
  /\ latest = [i \in Instrument |-> NoQuote]
  /\ alert = "NONE" /\ tries = 0
  /\ raised = {} /\ published = {} /\ repeatable = {}

-----------------------------------------------------------------------------

\* The market ingestor, or a provider that is late: timestamps come in any order.
Ingest(r) ==
  /\ Len(stream) < MaxRecord
  /\ stream' = Append(stream, r)
  /\ UNCHANGED <<checkpoint, from, next, latest, alert, tries, ghosts>>

Current == stream[next]

Processing == next <= Len(stream) /\ alert = "NONE"

\* Mutant: late quotes are processed like any other.
IgnoredTradesOnly == Current.kind = "trade"

\* Trades, and quotes not newer than the latest one of their instrument.
Ignored ==
  \/ Current.kind = "trade"
  \/ /\ latest[Current.instrument] # NoQuote
     /\ Current.time <= latest[Current.instrument].time

Ignore ==
  /\ Processing /\ Ignored
  /\ next' = next + 1
  /\ UNCHANGED <<stream, checkpoint, from, latest, alert, tries, ghosts>>

\* The severity of the move to the current quote; the first quote is none.
CurrentMove ==
  IF latest[Current.instrument] = NoQuote THEN "NONE"
  ELSE MoveSeverity(latest[Current.instrument].price, Current.price)

SetQuote == latest' = [latest EXCEPT ![Current.instrument] = Current]

\* Mutant: only a quote that raises an alert advances the state.
SetLatestOnAlertOnly ==
  /\ Processing /\ ~Ignored /\ CurrentMove = "NONE"
  /\ IF latest[Current.instrument] = NoQuote THEN SetQuote ELSE UNCHANGED latest
  /\ next' = next + 1
  /\ UNCHANGED <<stream, checkpoint, from, alert, tries, ghosts>>

\* process_event without an alert: the state advances all the same.
Advance ==
  /\ Processing /\ ~Ignored /\ CurrentMove = "NONE"
  /\ SetQuote
  /\ next' = next + 1
  /\ UNCHANGED <<stream, checkpoint, from, alert, tries, ghosts>>

\* Mutant: the state is left for the publication to advance.
RaiseBeforeState ==
  /\ Processing /\ ~Ignored /\ CurrentMove # "NONE"
  /\ alert' = CurrentMove
  /\ raised' = raised \cup {<<next, CurrentMove>>}
  /\ UNCHANGED <<stream, checkpoint, from, next, latest, tries, published, repeatable>>

\* process_event with an alert: the state advances before the alert is published.
Raise ==
  /\ Processing /\ ~Ignored /\ CurrentMove # "NONE"
  /\ SetQuote
  /\ alert' = CurrentMove
  /\ raised' = raised \cup {<<next, CurrentMove>>}
  /\ UNCHANGED <<stream, checkpoint, from, next, tries, published, repeatable>>

\* EventBridge accepts the entry of a request, or does not.
Deliver(accepted) ==
  /\ published' = IF accepted THEN published \cup {<<next, alert>>} ELSE published
  /\ repeatable' = IF accepted THEN repeatable \cup {<<next, alert>>} ELSE repeatable

\* A request of the put_events call is not answered, or with an error botocore
\* retries: the call sends the same entry again.
Resend(accepted) ==
  /\ alert # "NONE"
  /\ tries + 1 < Attempts
  /\ Deliver(accepted)
  /\ tries' = tries + 1
  /\ UNCHANGED <<stream, checkpoint, from, next, latest, alert, raised>>

\* The last request, and the end of the call.  When it raises, accepted or not, the
\* record is retried.
Publish(accepted, ok) ==
  /\ alert # "NONE"
  /\ ok => accepted
  /\ Deliver(accepted)
  /\ alert' = "NONE" /\ tries' = 0
  /\ next' = IF ok THEN next + 1 ELSE next
  /\ UNCHANGED <<stream, checkpoint, from, latest, raised>>

\* The runtime records how far the consumer has come.
Checkpoint ==
  /\ checkpoint # next
  /\ checkpoint' = next
  /\ UNCHANGED <<stream, from, next, latest, alert, tries, ghosts>>

\* A new process, at the last checkpoint and without state.
Restart ==
  /\ next' = checkpoint /\ from' = checkpoint
  /\ latest' = [i \in Instrument |-> NoQuote]
  /\ alert' = "NONE" /\ tries' = 0
  /\ repeatable' = {}
  /\ UNCHANGED <<stream, checkpoint, raised, published>>

Next ==
  \/ \E r \in Record : Ingest(r)
  \/ Ignore \/ Advance \/ Raise
  \/ \E accepted \in BOOLEAN : Resend(accepted)
  \/ \E accepted, ok \in BOOLEAN : Publish(accepted, ok)
  \/ Checkpoint \/ Restart

Spec == Init /\ [][Next]_vars

-----------------------------------------------------------------------------

\* The quotes of instrument i among records a to b.
Quotes(i, a, b) ==
  {k \in a .. b : stream[k].kind = "quote" /\ stream[k].instrument = i}

\* Record k is the first of the newest quotes of a set.
Newest(k, quotes) ==
  /\ k \in quotes
  /\ \A j \in quotes : \/ stream[j].time < stream[k].time
                       \/ stream[j].time = stream[k].time /\ k <= j

\* The state of each instrument is its newest quote among records from to last.
NewestUpTo(last) ==
  \A i \in Instrument :
    LET quotes == Quotes(i, from, last)
    IN IF latest[i] = NoQuote THEN quotes = {}
       ELSE \E k \in quotes : latest[i] = stream[k] /\ Newest(k, quotes)

\* The state never follows a late or repeated quote: it is the newest quote since
\* the process began, by timestamp, in whatever order the quotes came and however
\* often a record was retried (service.py 77-83).
StateIsNewest ==
  \E last \in {next - 1, next} \cap 0 .. Len(stream) : NewestUpTo(last)

\* A record that is replayed raises no second alert (test_market_to_alert.py
\* 914-920), also when the answer to its publication was lost: once EventBridge has
\* accepted an alert of a record, the process decides on no other for it.  So all
\* that EventBridge accepts for a record from one process are copies of one event,
\* sent by one put_events call with one event_id.
ReplayRaisesNoAlert == [][Raise => \A a \in repeatable : a[1] # next]_vars

\* Alerts stay correct across retries: an alert compares its quote with the one
\* that is newest among the quotes before it since the process began.
AlertsComparePredecessors ==
  alert # "NONE" =>
    \E k \in Quotes(Current.instrument, from, next - 1) :
      /\ Newest(k, Quotes(Current.instrument, from, next - 1))
      /\ stream[k].time < Current.time
      /\ alert = MoveSeverity(stream[k].price, Current.price)

\* A failed publication is retried: process_record propagates the exception "so
\* Kinesis/runtime retry semantics remain unchanged" (consumer.py 177-180), hence
\* no alert the engine decided on is passed over without being published.
RaisedArePublished ==
  \A a \in raised : a[1] < next => a \in published
=============================================================================
