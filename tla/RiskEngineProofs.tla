-------------------------- MODULE RiskEngineProofs ----------------------------
(***************************************************************************)
(* Theorems about RiskEngine, for all instruments, prices and thresholds,  *)
(* and streams of every length.                                            *)
(***************************************************************************)
EXTENDS RiskEngine, TLAPS

\* The state has come to record next - 1, or it includes the current record: while
\* its alert is being published, and when it is retried after that.
StateInv ==
  \/ NewestUpTo(next - 1) /\ alert = "NONE"
  \/ NewestUpTo(next) /\ next <= Len(stream)

AlertInv ==
  alert # "NONE" =>
    /\ <<next, alert>> \in raised
    /\ Current.kind = "quote" /\ latest[Current.instrument] = Current

\* The state is past record k.
Seen(k) ==
  /\ k \in 1 .. Len(stream)
  /\ stream[k].kind = "quote"
  /\ latest[stream[k].instrument] # NoQuote
  /\ stream[k].time <= latest[stream[k].instrument].time

ReplayInv ==
  \A a \in repeatable : Seen(a[1])

Inv == TypeOK /\ StateInv /\ AlertInv /\ AlertsComparePredecessors /\ ReplayInv

-----------------------------------------------------------------------------
(* The same, of a stream s and a state l.                                   *)

IsQuote(s, k, i) == s[k].kind = "quote" /\ s[k].instrument = i

\* Record k is the first of the newest quotes of i among records a to b of s.
Leads(s, i, k, a, b) ==
  /\ k \in a .. b /\ IsQuote(s, k, i)
  /\ \A j \in a .. b : IsQuote(s, j, i) =>
       s[j].time < s[k].time \/ (s[j].time = s[k].time /\ k <= j)

Follows(s, l, i, a, b) ==
  \/ l[i] = NoQuote /\ \A k \in a .. b : ~IsQuote(s, k, i)
  \/ l[i] # NoQuote /\ \E k \in a .. b : l[i] = s[k] /\ Leads(s, i, k, a, b)

UpTo(s, l, a, b) == \A i \in Instrument : Follows(s, l, i, a, b)

Compares(s, a, n, severity) ==
  \E k \in a .. n - 1 :
    /\ Leads(s, s[n].instrument, k, a, n - 1)
    /\ s[k].time < s[n].time
    /\ severity = MoveSeverity(s[k].price, s[n].price)

LEMMA Unfold ==
  ASSUME NEW b
  PROVE  /\ NewestUpTo(b) <=> UpTo(stream, latest, from, b)
         /\ NewestUpTo(b)' <=> UpTo(stream', latest', from', b')
BY DEF NewestUpTo, UpTo, Follows, Leads, IsQuote, Quotes, Newest

LEMMA UnfoldAlert ==
  /\ AlertsComparePredecessors <=>
       (alert # "NONE" => Compares(stream, from, next, alert))
  /\ AlertsComparePredecessors' <=>
       (alert' # "NONE" => Compares(stream', from', next', alert'))
BY DEF AlertsComparePredecessors, Compares, Leads, IsQuote, Quotes, Newest, Current

\* Records after the last one do not matter.
LEMMA Extended ==
  ASSUME NEW s, NEW t, NEW l, NEW a, NEW b, \A k \in a .. b : t[k] = s[k]
  PROVE  /\ UpTo(s, l, a, b) => UpTo(t, l, a, b)
         /\ \A i, k : Leads(s, i, k, a, b) => Leads(t, i, k, a, b)
BY DEF UpTo, Follows, Leads, IsQuote

\* A trade, or a quote that is no news, leaves the state up to date.
LEMMA Skipped ==
  ASSUME NEW s, NEW l, NEW a \in Nat, NEW b \in Nat, a <= b,
         \A k \in a .. b : s[k].time \in Int,
         UpTo(s, l, a, b - 1),
         s[b].kind = "quote" => /\ s[b].instrument \in Instrument
                                /\ l[s[b].instrument] # NoQuote
                                /\ s[b].time <= l[s[b].instrument].time
  PROVE  UpTo(s, l, a, b)
<1> SUFFICES ASSUME NEW i \in Instrument PROVE Follows(s, l, i, a, b)
  BY DEF UpTo
<1>1. Follows(s, l, i, a, b - 1)
  BY DEF UpTo
<1>2. \A k : k \in a .. b <=> k \in a .. b - 1 \/ k = b
  OBVIOUS
<1>3. CASE l[i] = NoQuote
  <2>1. ~IsQuote(s, b, i)
    BY <1>3 DEF IsQuote
  <2> QED BY <1>1, <1>2, <1>3, <2>1 DEF Follows
<1>4. CASE l[i] # NoQuote
  <2>1. PICK k \in a .. b - 1 : l[i] = s[k] /\ Leads(s, i, k, a, b - 1)
    BY <1>1, <1>4 DEF Follows
  <2>2. IsQuote(s, b, i) => s[b].time <= s[k].time /\ k <= b
    BY <2>1 DEF IsQuote
  <2>3. s[b].time \in Int /\ s[k].time \in Int
    BY <1>2, <2>1
  <2>4. Leads(s, i, k, a, b)
    BY <1>2, <2>1, <2>2, <2>3 DEF Leads
  <2> QED BY <1>2, <1>4, <2>1, <2>4 DEF Follows
<1> QED BY <1>3, <1>4

\* A quote newer than the state, once set, leads.
LEMMA Set ==
  ASSUME NEW s, NEW l, NEW a \in Nat, NEW b \in Nat, a <= b,
         \A k \in a .. b : s[k].time \in Int,
         UpTo(s, l, a, b - 1), s[b] \in Record, s[b].kind = "quote",
         l \in [Instrument -> Record \cup {NoQuote}],
         l[s[b].instrument] = NoQuote \/ l[s[b].instrument].time < s[b].time
  PROVE  UpTo(s, [l EXCEPT ![s[b].instrument] = s[b]], a, b)
<1> DEFINE i == s[b].instrument  new == [l EXCEPT ![i] = s[b]]
<1>1. i \in Instrument /\ s[b] # NoQuote
  BY RiskAssumption DEF Record
<1>2. \A k : k \in a .. b <=> k \in a .. b - 1 \/ k = b
  OBVIOUS
<1>3. ASSUME NEW f \in Instrument \ {i} PROVE Follows(s, new, f, a, b)
  <2>1. new[f] = l[f] /\ ~IsQuote(s, b, f)
    BY <1>3 DEF IsQuote
  <2>2. Follows(s, l, f, a, b - 1)
    BY DEF UpTo
  <2> QED BY <1>2, <2>1, <2>2 DEF Follows, Leads
<1>4. Follows(s, new, i, a, b)
  <2>1. new[i] = s[b] /\ IsQuote(s, b, i) /\ b \in a .. b
    BY <1>1 DEF IsQuote
  <2>2. \A j \in a .. b - 1 : IsQuote(s, j, i) => s[j].time < s[b].time
    <3>1. Follows(s, l, i, a, b - 1)
      BY <1>1 DEF UpTo
    <3>2. CASE l[i] = NoQuote
      BY <3>1, <3>2 DEF Follows
    <3>3. CASE l[i] # NoQuote
      <4>1. PICK k \in a .. b - 1 : l[i] = s[k] /\ Leads(s, i, k, a, b - 1)
        BY <3>1, <3>3 DEF Follows
      <4>2. s[k].time < s[b].time
        BY <3>3, <4>1
      <4>3. s[k].time \in Int /\ s[b].time \in Int
        BY <1>2, <4>1, <2>1
      <4>4. ASSUME NEW j \in a .. b - 1, IsQuote(s, j, i) PROVE s[j].time < s[b].time
        <5>1. s[j].time <= s[k].time /\ s[j].time \in Int
          BY <1>2, <4>1, <4>3, <4>4 DEF Leads
        <5> QED BY <4>2, <4>3, <5>1
      <4> QED BY <4>4
    <3> QED BY <3>2, <3>3
  <2>3. Leads(s, i, b, a, b)
    BY <1>2, <2>1, <2>2 DEF Leads
  <2> QED BY <1>1, <2>1, <2>3 DEF Follows
<1> HIDE DEF new
<1>5. UpTo(s, new, a, b)
  BY <1>3, <1>4 DEF UpTo
<1> QED BY <1>5 DEF new

-----------------------------------------------------------------------------

LEMMA Types ==
  ASSUME TypeOK
  PROVE  /\ Len(stream) \in Nat /\ next \in Nat \ {0} /\ from \in Nat \ {0}
         /\ next <= Len(stream) + 1 /\ from <= next
         /\ \A k \in 1 .. Len(stream) :
              /\ stream[k] \in Record /\ stream[k] # NoQuote
              /\ stream[k].time \in Int /\ stream[k].instrument \in Instrument
              /\ stream[k].kind \in {"quote", "trade"}
         /\ latest \in [Instrument -> Record \cup {NoQuote}]
<1>1. /\ Len(stream) \in Nat /\ next \in Nat \ {0} /\ from \in Nat \ {0}
      /\ next <= Len(stream) + 1 /\ from <= next
      /\ latest \in [Instrument -> Record \cup {NoQuote}]
  BY DEF TypeOK
<1>2. \A k \in 1 .. Len(stream) : stream[k] \in Record
  BY DEF TypeOK
<1>3. \A r \in Record : /\ r # NoQuote /\ r.time \in Int /\ r.instrument \in Instrument
                        /\ r.kind \in {"quote", "trade"}
  BY RiskAssumption DEF Record
<1> QED BY <1>1, <1>2, <1>3

LEMMA InitInv == Init => Inv
<1> SUFFICES ASSUME Init PROVE Inv
  OBVIOUS
<1>1. Len(stream) = 0 /\ stream \in Seq(Record)
  BY DEF Init
<1>2. TypeOK
  BY <1>1, RiskAssumption DEF Init, TypeOK, Severity
<1>3. UpTo(stream, latest, from, next - 1)
  <2>1. from .. next - 1 = {}
    BY DEF Init
  <2>2. \A i \in Instrument : latest[i] = NoQuote
    BY DEF Init
  <2> QED BY <2>1, <2>2 DEF UpTo, Follows
<1>4. NewestUpTo(next - 1)
  BY <1>3, Unfold
<1> QED BY <1>2, <1>4
  DEF Init, Inv, StateInv, AlertInv, AlertsComparePredecessors, ReplayInv

LEMMA IngestStep == ASSUME Inv, NEW r \in Record, Ingest(r) PROVE Inv'
<1>1. /\ stream' \in Seq(Record) /\ Len(stream') = Len(stream) + 1
      /\ \A k \in 1 .. Len(stream) : stream'[k] = stream[k]
      /\ Len(stream) < MaxRecord
      /\ UNCHANGED <<checkpoint, from, next, latest, alert, tries, raised, published, repeatable>>
  BY DEF Inv, TypeOK, Ingest, ghosts
<1>2. TypeOK'
  BY <1>1, Types, RiskAssumption DEF Inv, TypeOK
<1>3. ASSUME NEW last \in Int, last <= Len(stream), UpTo(stream, latest, from, last)
      PROVE  UpTo(stream', latest, from, last)
  <2>1. \A k \in from .. last : stream'[k] = stream[k]
    BY <1>1, <1>3, Types DEF Inv
  <2> QED BY <1>3, <2>1, Extended
<1>4. StateInv'
  <2>1. CASE NewestUpTo(next - 1) /\ alert = "NONE"
    <3>1. UpTo(stream', latest, from, next - 1)
      BY <1>3, <2>1, Unfold, Types DEF Inv
    <3>2. (next - 1)' = next - 1 /\ NewestUpTo(next - 1)'
      BY <1>1, <3>1, Unfold
    <3> QED BY <1>1, <2>1, <3>2 DEF StateInv
  <2>2. CASE NewestUpTo(next) /\ next <= Len(stream)
    <3>1. UpTo(stream', latest, from, next)
      BY <1>3, <2>2, Unfold, Types DEF Inv
    <3>2. NewestUpTo(next)'
      BY <1>1, <3>1, Unfold
    <3> QED BY <1>1, <2>2, <3>2, Types DEF StateInv, Inv
  <2> QED BY <2>1, <2>2 DEF Inv, StateInv
<1>5. alert # "NONE" => stream'[next] = stream[next] /\ next \in 1 .. Len(stream)
  BY <1>1, Types DEF Inv, TypeOK
<1>6. AlertInv'
  BY <1>1, <1>5 DEF Inv, AlertInv, Current
<1>7. AlertsComparePredecessors'
  <2> SUFFICES ASSUME alert # "NONE" PROVE Compares(stream', from, next, alert)
    BY <1>1, UnfoldAlert
  <2>1. Compares(stream, from, next, alert)
    BY UnfoldAlert DEF Inv
  <2>2. \A k \in from .. next - 1 : stream'[k] = stream[k]
    BY <1>1, Types DEF Inv
  <2> QED BY <1>5, <2>1, <2>2, Extended DEF Compares
<1>8. ReplayInv'
  BY <1>1, Types DEF Inv, ReplayInv, Seen
<1> QED BY <1>2, <1>4, <1>6, <1>7, <1>8 DEF Inv

-----------------------------------------------------------------------------
(* Processing the current record.                                           *)

LEMMA Position ==
  ASSUME Inv, Processing
  PROVE  /\ next \in from .. Len(stream) /\ next \in 1 .. Len(stream)
         /\ \A k \in from .. next : stream[k].time \in Int
         /\ Current = stream[next] /\ Current \in Record /\ alert = "NONE"
         /\ UpTo(stream, latest, from, next - 1) \/ UpTo(stream, latest, from, next)
BY Types, Unfold DEF Inv, Processing, StateInv, Current

\* What is not ignored has not been processed before.
LEMMA Fresh ==
  ASSUME Inv, Processing, ~Ignored
  PROVE  /\ Current.kind = "quote" /\ Current.instrument \in Instrument
         /\ UpTo(stream, latest, from, next - 1)
         /\ \/ latest[Current.instrument] = NoQuote
            \/ latest[Current.instrument].time < Current.time
<1>1. /\ Current.kind = "quote" /\ Current.instrument \in Instrument
      /\ Current.time \in Int /\ latest \in [Instrument -> Record \cup {NoQuote}]
  BY Position, Types DEF Ignored, Inv
<1> DEFINE i == Current.instrument
<1>2. latest[i] # NoQuote => latest[i].time \in Int /\ ~(Current.time <= latest[i].time)
  BY <1>1 DEF Ignored, Record
<1>3. latest[i] = NoQuote \/ latest[i].time < Current.time
  BY <1>1, <1>2
<1>4. ~UpTo(stream, latest, from, next)
  <2> SUFFICES ASSUME UpTo(stream, latest, from, next) PROVE FALSE
    OBVIOUS
  <2>1. Follows(stream, latest, i, from, next)
    BY <1>1 DEF UpTo
  <2>2. IsQuote(stream, next, i) /\ next \in from .. next
    BY <1>1, Position, Types DEF IsQuote, Inv
  <2>3. PICK k \in from .. next : latest[i] = stream[k] /\ Leads(stream, i, k, from, next)
    BY <2>1, <2>2 DEF Follows
  <2>4. latest[i] # NoQuote
    BY <2>1, <2>2 DEF Follows
  <2>5. stream[next].time <= stream[k].time
    BY <2>2, <2>3, Position DEF Leads
  <2> QED BY <1>2, <2>3, <2>4, <2>5, Position
<1> QED BY <1>1, <1>3, <1>4, Position

LEMMA IgnoreStep == ASSUME Inv, Ignore PROVE Inv'
<1>1. /\ Processing /\ Ignored /\ next' = next + 1
      /\ UNCHANGED <<stream, checkpoint, from, latest, alert, tries, raised, published,
                  repeatable>>
  BY DEF Ignore, ghosts
<1>2. TypeOK'
  BY <1>1, Position, Types DEF Inv, TypeOK
<1>3. UpTo(stream, latest, from, next)
  <2>1. CASE UpTo(stream, latest, from, next)
    BY <2>1
  <2>2. CASE UpTo(stream, latest, from, next - 1)
    <3>1. from \in Nat /\ next \in Nat /\ from <= next
      BY Types DEF Inv
    <3>2. stream[next].kind = "quote" =>
            /\ stream[next].instrument \in Instrument
            /\ latest[stream[next].instrument] # NoQuote
            /\ stream[next].time <= latest[stream[next].instrument].time
      BY <1>1, Position, Types DEF Ignored, Inv
    <3> QED BY <1>1, <2>2, <3>1, <3>2, Position, Skipped
  <2> QED BY <1>1, <2>1, <2>2, Position
<1>4. StateInv'
  <2>1. next' - 1 = next
    BY <1>1, Types DEF Inv
  <2>2. UpTo(stream', latest', from', (next - 1)')
    BY <1>1, <1>3, <2>1
  <2> QED BY <1>1, <2>2, Unfold, Position DEF StateInv
<1>5. AlertInv' /\ AlertsComparePredecessors' /\ ReplayInv'
  BY <1>1, Position
     DEF Inv, AlertInv, AlertsComparePredecessors, ReplayInv, Seen, Processing
<1> QED BY <1>2, <1>4, <1>5 DEF Inv

\* Setting the current quote keeps the state the newest, and past all it was past.
LEMMA SetStep ==
  ASSUME Inv, Processing, ~Ignored, SetQuote
  PROVE  /\ latest' \in [Instrument -> Record \cup {NoQuote}]
         /\ latest'[Current.instrument] = Current
         /\ UpTo(stream, latest', from, next)
         /\ \A k : Seen(k) =>
              /\ k # next /\ latest'[stream[k].instrument] # NoQuote
              /\ stream[k].time <= latest'[stream[k].instrument].time
<1> DEFINE i == Current.instrument
<1>1. /\ latest' = [latest EXCEPT ![i] = stream[next]] /\ i = stream[next].instrument
      /\ latest \in [Instrument -> Record \cup {NoQuote}] /\ i \in Instrument
      /\ Current \in Record /\ Current = stream[next] /\ Current.time \in Int
      /\ Current # NoQuote
  BY Fresh, Position, Types DEF SetQuote, Inv
<1>2. UpTo(stream, latest', from, next)
  <2>1. from \in Nat /\ next \in Nat /\ from <= next
    BY Types DEF Inv
  <2> QED BY <1>1, <2>1, Fresh, Position, Set
<1>3. ASSUME NEW k, Seen(k)
      PROVE  /\ k # next /\ latest'[stream[k].instrument] # NoQuote
             /\ stream[k].time <= latest'[stream[k].instrument].time
  <2>1. /\ k \in 1 .. Len(stream) /\ latest[stream[k].instrument] # NoQuote
        /\ stream[k].time <= latest[stream[k].instrument].time
        /\ stream[k].time \in Int /\ stream[k].instrument \in Instrument
    BY <1>3, Types DEF Seen, Inv
  <2>2. latest[stream[k].instrument].time \in Int
    BY <1>1, <2>1 DEF Record
  <2>3. CASE stream[k].instrument = i
    BY <1>1, <2>1, <2>2, <2>3, Fresh
  <2>4. CASE stream[k].instrument # i
    BY <1>1, <2>1, <2>4
  <2> QED BY <2>3, <2>4
<1> QED BY <1>1, <1>2, <1>3

LEMMA AdvanceStep == ASSUME Inv, Advance PROVE Inv'
<1>1. /\ Processing /\ ~Ignored /\ SetQuote /\ next' = next + 1
      /\ UNCHANGED <<stream, checkpoint, from, alert, tries, raised, published, repeatable>>
  BY DEF Advance, ghosts
<1>2. TypeOK'
  BY <1>1, SetStep, Position, Types DEF Inv, TypeOK
<1>3. StateInv'
  <2>1. next' - 1 = next
    BY <1>1, Types DEF Inv
  <2>2. UpTo(stream', latest', from', (next - 1)')
    BY <1>1, <2>1, SetStep
  <2> QED BY <1>1, <2>2, Unfold, Position DEF StateInv
<1>4. AlertInv' /\ AlertsComparePredecessors'
  BY <1>1, Position DEF AlertInv, AlertsComparePredecessors
<1>5. ReplayInv'
  BY <1>1, SetStep, Position DEF Inv, ReplayInv, Seen
<1> QED BY <1>2, <1>3, <1>4, <1>5 DEF Inv

LEMMA RaiseStep == ASSUME Inv, Raise PROVE Inv'
<1>1. /\ Processing /\ ~Ignored /\ SetQuote /\ CurrentMove # "NONE"
      /\ alert' = CurrentMove /\ raised' = raised \cup {<<next, CurrentMove>>}
      /\ UNCHANGED <<stream, checkpoint, from, next, tries, published, repeatable>>
  BY DEF Raise
<1> DEFINE i == Current.instrument
<1>2. /\ latest[i] # NoQuote /\ CurrentMove = MoveSeverity(latest[i].price, Current.price)
      /\ CurrentMove \in {"WARNING", "CRITICAL"}
  BY <1>1 DEF CurrentMove, MoveSeverity
<1>3. TypeOK'
  <2>1. raised' \subseteq Alert
    BY <1>1, <1>2, Position, Types, RiskAssumption DEF Inv, TypeOK, Alert
  <2> QED BY <1>1, <1>2, <2>1, SetStep, Position, Types DEF Inv, TypeOK, Severity
<1>4. StateInv'
  <2>1. UpTo(stream', latest', from', next')
    BY <1>1, SetStep
  <2> QED BY <1>1, <2>1, Unfold, Position, Types DEF StateInv, Inv
<1>5. AlertInv'
  BY <1>1, Fresh, SetStep DEF AlertInv, Current
<1>6. AlertsComparePredecessors'
  <2>1. Follows(stream, latest, i, from, next - 1)
    BY <1>1, Fresh DEF UpTo
  <2>2. PICK k \in from .. next - 1 :
          latest[i] = stream[k] /\ Leads(stream, i, k, from, next - 1)
    BY <1>2, <2>1 DEF Follows
  <2>3. Compares(stream, from, next, CurrentMove)
    BY <1>1, <1>2, <2>2, Fresh, Position DEF Compares
  <2> QED BY <1>1, <2>3, UnfoldAlert
<1>7. ReplayInv'
  BY <1>1, SetStep, Position DEF Inv, ReplayInv, Seen
<1> QED BY <1>3, <1>4, <1>5, <1>6, <1>7 DEF Inv

\* The record whose alert is being published has been set: it is not raised again.
LEMMA InFlight ==
  ASSUME Inv, alert # "NONE"
  PROVE  /\ next \in 1 .. Len(stream) /\ <<next, alert>> \in raised
         /\ UpTo(stream, latest, from, next) /\ Current = stream[next]
         /\ Seen(next)
<1>1. /\ next \in 1 .. Len(stream) /\ <<next, alert>> \in raised
      /\ UpTo(stream, latest, from, next) /\ Current = stream[next]
  BY Types, Unfold DEF Inv, TypeOK, StateInv, AlertInv, Current
<1>2. Seen(next)
  BY <1>1, Types DEF Inv, AlertInv, Seen
<1> QED BY <1>1, <1>2

LEMMA ResendStep == ASSUME Inv, NEW accepted \in BOOLEAN, Resend(accepted) PROVE Inv'
<1>1. /\ alert # "NONE" /\ tries + 1 < Attempts /\ tries' = tries + 1
      /\ published' = IF accepted THEN published \cup {<<next, alert>>} ELSE published
      /\ repeatable' = IF accepted THEN repeatable \cup {<<next, alert>>} ELSE repeatable
      /\ UNCHANGED <<stream, checkpoint, from, next, latest, alert, raised>>
  BY DEF Resend, Deliver
<1>2. TypeOK'
  <2>1. tries' \in 0 .. Attempts - 1
    BY <1>1, RiskAssumption DEF Inv, TypeOK
  <2> QED BY <1>1, <2>1, InFlight DEF Inv, TypeOK
<1>3. StateInv' /\ AlertInv' /\ AlertsComparePredecessors'
  BY <1>1, Unfold, UnfoldAlert, InFlight, Types DEF Inv, StateInv, AlertInv, Current
<1>4. ReplayInv'
  BY <1>1, InFlight DEF Inv, ReplayInv, Seen
<1> QED BY <1>2, <1>3, <1>4 DEF Inv

LEMMA PublishStep ==
  ASSUME Inv, NEW accepted \in BOOLEAN, NEW ok \in BOOLEAN, Publish(accepted, ok)
  PROVE  Inv'
<1>1. /\ alert # "NONE" /\ alert' = "NONE" /\ tries' = 0
      /\ next' = IF ok THEN next + 1 ELSE next
      /\ published' = IF accepted THEN published \cup {<<next, alert>>} ELSE published
      /\ repeatable' = IF accepted THEN repeatable \cup {<<next, alert>>} ELSE repeatable
      /\ UNCHANGED <<stream, checkpoint, from, latest, raised>>
  BY DEF Publish, Deliver
<1>2. /\ next \in 1 .. Len(stream) /\ <<next, alert>> \in raised
      /\ UpTo(stream, latest, from, next) /\ Seen(next)
  BY <1>1, InFlight
<1>3. TypeOK'
  BY <1>1, <1>2, Types, RiskAssumption DEF Inv, TypeOK, Severity
<1>4. StateInv'
  <2>1. CASE ok
    <3>1. UpTo(stream', latest', from', (next - 1)')
      BY <1>1, <1>2, <2>1
    <3> QED BY <1>1, <3>1, Unfold DEF StateInv
  <2>2. CASE ~ok
    <3>1. UpTo(stream', latest', from', next') /\ next' <= Len(stream')
      BY <1>1, <1>2, <2>2
    <3> QED BY <1>1, <3>1, Unfold DEF StateInv
  <2> QED BY <2>1, <2>2
<1>5. AlertInv' /\ AlertsComparePredecessors' /\ ReplayInv'
  BY <1>1, <1>2 DEF Inv, AlertInv, AlertsComparePredecessors, ReplayInv, Seen
<1> QED BY <1>3, <1>4, <1>5 DEF Inv

LEMMA RestartStep == ASSUME Inv, Restart PROVE Inv'
<1>1. /\ next' = checkpoint /\ from' = checkpoint /\ alert' = "NONE" /\ tries' = 0
      /\ repeatable' = {}
      /\ latest' = [i \in Instrument |-> NoQuote]
      /\ UNCHANGED <<stream, checkpoint, raised, published>>
      /\ checkpoint \in Nat \ {0} /\ checkpoint <= Len(stream) + 1
  BY Types DEF Restart, Inv, TypeOK
<1>2. TypeOK'
  BY <1>1, Types, RiskAssumption DEF Inv, TypeOK, Severity
<1>3. StateInv'
  <2>1. from' .. next' - 1 = {}
    BY <1>1
  <2>2. UpTo(stream', latest', from', (next - 1)')
    BY <1>1, <2>1 DEF UpTo, Follows
  <2> QED BY <1>1, <2>2, Unfold DEF StateInv
<1>4. AlertInv' /\ AlertsComparePredecessors' /\ ReplayInv'
  BY <1>1 DEF AlertInv, AlertsComparePredecessors, ReplayInv
<1> QED BY <1>2, <1>3, <1>4 DEF Inv

LEMMA CheckpointStep == ASSUME Inv, Checkpoint PROVE Inv'
<1>1. /\ checkpoint' = next
      /\ UNCHANGED <<stream, from, next, latest, alert, tries, raised, published, repeatable>>
  BY DEF Checkpoint, ghosts
<1>2. TypeOK'
  BY <1>1, Types DEF Inv, TypeOK
<1>3. StateInv'
  BY <1>1 DEF Inv, StateInv, NewestUpTo, Quotes, Newest
<1>4. AlertInv' /\ AlertsComparePredecessors' /\ ReplayInv'
  BY <1>1, UnfoldAlert DEF Inv, AlertInv, ReplayInv, Seen, Current
<1> QED BY <1>2, <1>3, <1>4 DEF Inv

LEMMA Invariance == Spec => []Inv
<1>1. ASSUME Inv, [Next]_vars PROVE Inv'
  <2>1. CASE UNCHANGED vars
    <3>1. UNCHANGED <<stream, checkpoint, from, next, latest, alert, tries,
                      raised, published, repeatable>>
      BY <2>1 DEF vars, ghosts
    <3>2. TypeOK'
      BY <1>1, <3>1 DEF Inv, TypeOK
    <3>3. StateInv'
      BY <1>1, <3>1 DEF Inv, StateInv, NewestUpTo, Quotes, Newest
    <3>4. AlertInv' /\ ReplayInv'
      BY <1>1, <3>1 DEF Inv, AlertInv, ReplayInv, Seen, Current
    <3>5. AlertsComparePredecessors'
      BY <1>1, <3>1, UnfoldAlert DEF Inv, Current
    <3> QED BY <3>2, <3>3, <3>4, <3>5 DEF Inv
  <2> QED
    BY <1>1, <2>1, IngestStep, IgnoreStep, AdvanceStep, RaiseStep, ResendStep,
       PublishStep, CheckpointStep, RestartStep DEF Next
<1> QED BY <1>1, InitInv, PTL DEF Spec

-----------------------------------------------------------------------------

\* Every reachable state is well typed; what was published was raised.
THEOREM TypeCorrect == Spec => []TypeOK
BY Invariance, PTL DEF Inv

\* The state always is the newest quote of each instrument since the process began.
THEOREM NewestQuoteKept == Spec => []StateIsNewest
<1>1. Inv => StateIsNewest
  BY Types DEF Inv, StateInv, StateIsNewest
<1> QED BY <1>1, Invariance, PTL

\* Every alert compares its quote with the newest one before it.
THEOREM AlertsCompareRight == Spec => []AlertsComparePredecessors
BY Invariance, PTL DEF Inv

\* However often a record is retried and however many of its requests are sent
\* again, a process whose alert was accepted once decides on no other for the record.
THEOREM NoAlertRepeated == Spec => ReplayRaisesNoAlert
<1>1. Inv /\ [Next]_vars => [Raise => \A a \in repeatable : a[1] # next]_vars
  <2> SUFFICES ASSUME Inv, Raise, NEW a \in repeatable PROVE a[1] # next
    OBVIOUS
  <2>1. Processing /\ ~Ignored /\ SetQuote /\ Seen(a[1])
    BY DEF Inv, ReplayInv, Raise
  <2> QED BY <2>1, SetStep
<1> QED BY <1>1, Invariance, PTL DEF Spec, ReplayRaisesNoAlert
=============================================================================
