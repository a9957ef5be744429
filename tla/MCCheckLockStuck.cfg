SPECIFICATION Spec
CONSTANTS
  Invocations = {i1, i2}
  Nobody = Nobody
  Hosts = {FALSE}
  Configs = 2
  MaxKills = 1
PROPERTIES RefusedOnlyIfBusy
