SPECIFICATION FairSpec
CONSTANTS
  IPs = {p1, p2}
  Limits = {0, 1}
  StaleAfter = 2
  SampleWindow = 1
  UnbanFor = {1}
  None = None
  MaxTime = 2
  MaxConfig = 1
  MaxButtons = 1
  MaxRotations = 1
  MaxFaults = 0
  MaxRestarts = 1
  MaxEvents = 2
PROPERTIES BansEnd
INVARIANTS RuleIsLogged
