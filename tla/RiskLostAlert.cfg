SPECIFICATION Spec
CONSTANTS
  Instrument = {i1}
  Price = {100, 110}
  NoQuote = noQuote
  Warning = 2
  Critical = 5
  Attempts = 2
  MaxRecord = 2
  MaxTime = 2
INVARIANTS RaisedArePublished
