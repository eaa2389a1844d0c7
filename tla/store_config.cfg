SPECIFICATION FairSpec
CONSTANTS
  Proc = {p1, p2, h}
  Hook = {h}
  NoProc = NoProc
  Setting = {"x"}
  Unset = "unset"
  Existing = FALSE
  InitAlone = TRUE
  CrashInSave = FALSE
  MaxCommand = 4
  MaxFault = 1
INVARIANTS TypeOK NoOrphanShard SettingKept
PROPERTIES CurrentIdentity Delivered
