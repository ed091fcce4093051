SPECIFICATION Spec
CONSTANTS
  Session = {c1, c2}
  Portfolio = {p1}
  Instrument = {i1, i2}
  PositionId = {x1, x2}
  Quantity = {4, 12}
  Cost = {10}
  Digit = 10
  Number = {0, 4, 10, 12}
  NotGiven = 0
  NoPortfolio = noPortfolio
  NoPosition = noPosition
  NoRow = noRow
  Idle = idle
  MaxTime = 6
INVARIANTS OutboxTellsHistory
PROPERTIES ImplementsLedger UnreadableStays
