SPECIFICATION Spec
CONSTANTS
  Instrument = {i1, i2}
  Price = {100, 102, 110}
  NoQuote = noQuote
  Warning = 2
  Critical = 5
  Attempts = 2
  MaxRecord = 3
  MaxTime = 2
INVARIANTS StateIsNewest AlertsComparePredecessors
PROPERTIES ReplayRaisesNoAlert
