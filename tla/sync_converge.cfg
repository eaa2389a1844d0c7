SPECIFICATION FairSpec
CONSTANTS
  Store = {s1, s2}
  Machine = {m0}
  NoFingerprint = m0
  Decision = {d1, d2}
  MaxInstall = 4
  MaxFault = 1
  CrashIn = {"reconcile", "pull"}
  PutFault = {"failed", "lost", "retried"}
  RefusalNamed = {TRUE, FALSE}
  RotateAnytime = FALSE
  TwinsPushAlike = TRUE
PROPERTY Converges
