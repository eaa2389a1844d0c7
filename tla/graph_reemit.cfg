SPECIFICATION Spec
CONSTANTS
  Decision = {1, 2, 3}
  Element = {"a", "b"}
  Input <- SameProperty
  Store = {1, 2}
  NoGraph = NoGraph
  BulkPull = 3
  SameAuthor = FALSE
  Troubled = {1, 2}
  MaxRotate = 1
  MaxFault = 0
  RecordedAt <- Imported
  WhyMax = 2
  MaxLamport = 4
PROPERTY ReEmissionConverges
CHECK_DEADLOCK FALSE
