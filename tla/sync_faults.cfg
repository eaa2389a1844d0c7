SPECIFICATION Spec
CONSTANTS
  Store = {s1, s2}
  Machine = {m1, m2}
  NoFingerprint = m0
  Decision = {d1, d2}
  MaxInstall = 3
  MaxFault = 1
  CrashIn = {"reconcile", "pull"}
  PutFault = {"failed", "lost"}
  RefusalNamed = {TRUE}
  RotateAnytime = TRUE
  TwinsPushAlike = TRUE
SYMMETRY Symmetric
INVARIANTS TypeOK RemoteIsChain ForeignIsPrefix IdentityOK
PROPERTIES OwnShardUntouched CausalStamp NoFalseFork ImplementsUnionLog
