SPECIFICATION Spec
CONSTANTS
  Session = {c1}
  Portfolio = {p1}
  Instrument = {i1}
  PositionId = {x1}
  Number = {0, 4, 10, 12}
  Digit = 10
  Quantity = {4, 12}
  Cost = {10}
  NotGiven = 0
  NoPortfolio = noPortfolio
  NoPosition = noPosition
  NoRow = noRow
  Idle = idle
  MaxTime = 4
INVARIANTS PortfoliosReadable
