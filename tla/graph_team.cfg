SPECIFICATION Spec
CONSTANTS
  Decision = {1, 2, 3}
  Element = {"a", "b"}
  Input <- SameProperty
  Store = {1, 2, 3}
  NoGraph = NoGraph
  BulkPull = 3
  SameAuthor = FALSE
  Troubled = {}
  MaxRotate = 0
  MaxFault = 0
  RecordedAt <- Imported
  WhyMax = 2
  MaxLamport = 4
INVARIANTS TypeOK LiveValueCurrent StubsFilled NewestIsHead
PROPERTIES Resolves
