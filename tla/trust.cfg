SPECIFICATION Spec
CONSTANTS
  Value = {"x", "none"}
  Unset = ""
  Unusable = {"none"}
  RemoteNone = "none"
  Repo = {1, 2}
  Content <- Contents
  Session <- Sessions
  Proc = {p, q}
  NoRead = NoRead
  NoFile = NoFile
  MaxChange = 3
  MaxEdit = 1
INVARIANTS TypeOK ResolversAgree
PROPERTIES OnlyConsented AnswerKept
SYMMETRY Same
