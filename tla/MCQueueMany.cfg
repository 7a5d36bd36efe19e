SPECIFICATION Spec
CONSTANTS
  Producers = {p1, p2}
  Consumers = {c1, c2}
  MultipleProducer = TRUE
  MultipleConsumer = TRUE
  Capacity = 3
  Values = {a, b}
  Nothing = Nothing
INVARIANT CellsOwned
PROPERTY IsFifo
SYMMETRY Symmetry
