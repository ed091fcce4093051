SPECIFICATION Spec
CONSTANTS
  Account = {a1}
  Symbol = {s1}
  Price = {30, 61}
  Limit = {1, 30, 61}
  Digit = 3
  Quantity = {1}
  NoLimit = noLimit
  Client = {c1, c2}
  Worker = {w1}
  Order = {o1, o2}
  NoOrder = noOrder
  Idle = idle
  InitialCash <- MCInitialCash
  BatchSize = 2
SYMMETRY Sym
INVARIANTS TypeOK EachOrderFilledOnce BooksBalance DecidesOnLockedRows NoCircularWait
PROPERTIES FinalOrdersStay UnreadableOrdersStay ImplementsBook
