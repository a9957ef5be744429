SPECIFICATION FairSpec
CONSTANTS
  Invocations = {i1, i2, i3}
  Nobody = Nobody
  Hosts = {TRUE, FALSE}
  Configs = 2
  MaxKills = 2
INVARIANTS LockTypeOK FlockExcludes LockLetGo
PROPERTIES FlockNeverStale LockComesFree
