SPECIFICATION Spec
CONSTANTS
  IPs = {p1, p2, p3}
  Limits = {1, 2}
  StaleAfter = 1
  SampleWindow = 1
  UnbanFor = {1}
  None = None
  MaxTime = 4
  MaxConfig = 0
  MaxButtons = 0
  MaxRotations = 0
  MaxFaults = 1
  MaxRestarts = 0
  MaxEvents = 1
SYMMETRY Symmetry
PROPERTIES AtMostLimit
