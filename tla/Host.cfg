SPECIFICATION FairSpec
CONSTANTS
  Keys = {k1, k2}
  None = None
  Handlers = {h1}
  Jobs = {j1}
  Addrs = {a1, bad}
  Usable = {a1}
  Default = a1
  Interests = {"secrets", "service"}
  LastVersion = 2
  Faults = TRUE
INVARIANTS TypeOK SecretsReadable WayIn AddressAgrees VersionTold
PROPERTIES UpdateTakesHold ServesAgain
CHECK_DEADLOCK FALSE
