SPECIFICATION Spec
CONSTANTS
  Decision = {1, 2, 3}
  Element = {"a", "b"}
  Input <- NotesAndChanges
  Store = {1, 2}
  NoGraph = NoGraph
  BulkPull = 3
  SameAuthor = FALSE
  Troubled = {1}
  MaxRotate = 1
  MaxFault = 1
  RecordedAt <- Imported
  WhyMax = 2
  MaxLamport = 3
INVARIANTS GraphIsReplay HeadsAreMaximal RecordedOnce GraphBacked ReadsAgree 
PROPERTY ImplementsUnionLog
