------------------------------ MODULE MarketRunner -----------------------------
(***************************************************************************)
(* The market ingestor process: the loop of                                *)
(* services/market_ingestor/runner.py around the Kinesis producer.         *)
(*                                                                         *)
(* The loop asks whether to stop, chooses the kind of the next event,      *)
(* publishes it, asks again and waits.  A signal may come at any moment; a *)
(* publication that raises ends the process, though Kinesis may have       *)
(* accepted the record.  While a request of put_record is not answered it  *)
(* is sent again, so the stream may hold several records of one event.     *)
(* This process does not write the quote cache.                            *)
(***************************************************************************)
EXTENDS Integers

CONSTANTS
  MaxEvents,   \* bound on the events of a process that has no max_events
  Attempts     \* requests one put_record call sends at most

ASSUME RunnerAssumption == MaxEvents \in Nat \ {0} /\ Attempts \in Nat \ {0}

VARIABLES
  config,      \* the mode, and max_events: 0 is None
  loop,        \* where the loop is, and the kind of the event it publishes
  tradeNext,   \* _publish_trade_next
  count,       \* _published_count
  stop,        \* _stop_event
  tries,       \* requests of this publication that were not answered
  sent,        \* ghost: events of each kind in the stream,
  landed,      \*        whether the event being published is among them,
  late,        \*        the events that got there after the signal,
  repeats      \*        and the records that repeat the one before

stream     == <<sent, landed, late, repeats>>
runnerVars == <<config, loop, tradeNext, count, stop, tries, stream>>

Kind == {"trade", "quote"}

Config == [mode : Kind \cup {"both"}, max : 0 .. MaxEvents]

\* A process that has sent nothing.
Fresh == [at |-> "check", kind |-> "trade"]
NothingSent == [kind \in Kind |-> 0]

RunnerTypeOK ==
  /\ config \in Config
  /\ loop \in [at : {"check", "publish", "published", "wait", "stopped", "failed"},
               kind : Kind]
  /\ tradeNext \in BOOLEAN /\ stop \in BOOLEAN
  /\ count \in 0 .. MaxEvents
  /\ tries \in 0 .. Attempts - 1
  /\ sent \in [Kind -> 0 .. MaxEvents]
  /\ landed \in BOOLEAN
  /\ late \in 0 .. MaxEvents /\ repeats \in Nat

RunnerInit ==
  /\ config \in Config
  /\ loop = Fresh /\ tradeNext = TRUE /\ stop = FALSE
  /\ count = 0 /\ tries = 0
  /\ sent = NothingSent /\ landed = FALSE /\ late = 0 /\ repeats = 0

-----------------------------------------------------------------------------

LoopAt(stage) == loop.at = stage

\* SIGINT or SIGTERM.
Signal ==
  /\ loop.at \notin {"stopped", "failed"}
  /\ stop' = TRUE
  /\ UNCHANGED <<config, loop, tradeNext, count, tries, stream>>

\* Mutant: the process stops after the event that exceeds max_events.
ShouldStopLate == stop \/ (config.max > 0 /\ count > config.max)

ShouldStop == stop \/ (config.max > 0 /\ count >= config.max)

\* In mode "both" the kinds alternate: the turn passes before the publication.
NextKind ==
  IF config.mode # "both" THEN config.mode
  ELSE IF tradeNext THEN "trade" ELSE "quote"

\* The head of the loop, and the choice of the next event.
CheckStop ==
  /\ LoopAt("check")
  /\ IF ShouldStop
     THEN /\ loop' = [loop EXCEPT !.at = "stopped"]
          /\ UNCHANGED <<tradeNext, landed>>
     ELSE /\ count < MaxEvents
          /\ loop' = [at |-> "publish", kind |-> NextKind]
          /\ tradeNext' = IF config.mode = "both" THEN ~tradeNext ELSE tradeNext
          /\ landed' = FALSE
  /\ UNCHANGED <<config, count, stop, tries, sent, late, repeats>>

\* Kinesis accepts the record of a request, or does not.
PutRecord(accepted) ==
  LET first == accepted /\ ~landed
  IN /\ landed' = (landed \/ accepted)
     /\ sent' = IF first THEN [sent EXCEPT ![loop.kind] = @ + 1] ELSE sent
     /\ late' = IF first /\ stop THEN late + 1 ELSE late
     /\ repeats' = IF accepted /\ landed THEN repeats + 1 ELSE repeats

\* A request of the put_record call is not answered, or with an error botocore
\* retries: the call sends the same record again.
ResendRecord(accepted) ==
  /\ LoopAt("publish")
  /\ tries + 1 < Attempts
  /\ PutRecord(accepted)
  /\ tries' = tries + 1
  /\ UNCHANGED <<config, loop, tradeNext, count, stop>>

\* The last request for the event of a generated trade or quote, and the end of the
\* call; the record may be accepted although the call raises.
PublishRecord(accepted, ok) ==
  /\ LoopAt("publish")
  /\ ok => accepted
  /\ PutRecord(accepted)
  /\ tries' = 0
  /\ count' = IF ok THEN count + 1 ELSE count
  /\ loop' = [loop EXCEPT !.at = IF ok THEN "published" ELSE "failed"]
  /\ UNCHANGED <<config, tradeNext, stop>>

\* Before the pause between two events.
Recheck ==
  /\ LoopAt("published")
  /\ loop' = [loop EXCEPT !.at = IF ShouldStop THEN "stopped" ELSE "wait"]
  /\ UNCHANGED <<config, tradeNext, count, stop, tries, stream>>

\* The interval is over, or the stop event ends the wait.
Wake ==
  /\ LoopAt("wait")
  /\ loop' = [loop EXCEPT !.at = "check"]
  /\ UNCHANGED <<config, tradeNext, count, stop, tries, stream>>

\* The process has ended, with code 0 or 1, and is started again.
StartAgain ==
  /\ loop.at \in {"stopped", "failed"}
  /\ config' \in Config
  /\ loop' = Fresh /\ tradeNext' = TRUE /\ stop' = FALSE
  /\ count' = 0 /\ tries' = 0
  /\ sent' = NothingSent /\ landed' = FALSE /\ late' = 0 /\ repeats' = 0

RunnerNext ==
  \/ Signal \/ CheckStop \/ Recheck \/ Wake \/ StartAgain
  \/ \E accepted \in BOOLEAN : ResendRecord(accepted)
  \/ \E accepted, ok \in BOOLEAN : PublishRecord(accepted, ok)

RunnerSpec == RunnerInit /\ [][RunnerNext]_runnerVars

-----------------------------------------------------------------------------

\* What the process has put into the stream, whenever it is stopped and whatever
\* answers are lost: the events of never more than max_events publications, each in
\* at most Attempts records, which follow one another; as many events as it counted,
\* and one more only while a call is resent or when it raised; in mode "both" trades
\* and quotes in turn; and after a signal only the event it was about to publish
\* (runner.py 235-411, clients.py 12-19).
RunnerAccounts ==
  LET events == sent["trade"] + sent["quote"]
  IN /\ config.max > 0 => events <= config.max
     /\ \/ events = count
        \/ events = count + 1 /\ landed /\ (LoopAt("publish") \/ LoopAt("failed"))
     /\ repeats <= (Attempts - 1) * events
     /\ config.mode = "both" => sent["trade"] - sent["quote"] \in {0, 1}
     /\ late <= 1
=============================================================================
