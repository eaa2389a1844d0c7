SPECIFICATION Spec
CONSTANTS
  Store = {s1, s2}
  Machine = {m0}
  NoFingerprint = m0
  Decision = {d1, d2, d3}
  MaxInstall = 2
  MaxFault = 0
  CrashIn = {}
  PutFault = {}
  RefusalNamed = {TRUE}
  RotateAnytime = FALSE
  TwinsPushAlike = FALSE
SYMMETRY Symmetric
INVARIANT RemoteIsChain
CHECK_DEADLOCK FALSE
