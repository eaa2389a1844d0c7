SPECIFICATION Spec
CONSTANTS
  team = team
  solo = solo
  mine = mine
  mate = mate
  other = other
  Dir = {team, solo}
  Home = team
  Shard = {mine, mate, other}
  Own <- OwnShard
  Listing <- Names
  New = {team}
  Refused = {team, solo}
  MaxSave <- Saves
  MaxIngest <- Attempts
  Where = {"json"}
  MaxSent = 1
  MaxAsk = 1
  MaxCrash = 1
INVARIANTS OpenStays
CHECK_DEADLOCK FALSE
