SPECIFICATION FairSpec
CONSTANTS
  Clone = {c1, c2}
  Line = {"x"}
  NoTree = NoTree
  MaxEvent = 2
  MaxEdit = 2
INVARIANTS TypeOK TokenPrivate ShownIsLog
PROPERTIES PushedMeansShared Converges ImplementsUnionLog
