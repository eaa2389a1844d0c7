SPECIFICATION Spec
CONSTANTS
  Store = {s1}
  Machine = {m0}
  NoFingerprint = m0
  Decision = {d1, d2}
  MaxInstall = 2
  MaxFault = 1
  CrashIn = {"reemit"}
  PutFault = {}
  RefusalNamed = {TRUE}
  RotateAnytime = TRUE
  TwinsPushAlike = TRUE
SYMMETRY Symmetric
PROPERTY NothingLost
CHECK_DEADLOCK FALSE
