SPECIFICATION Spec
CONSTANTS
  Admins = {a1}
  Watchers = {w1}
  Jobs = {j1}
  CronRuns = {k1}
  None = None
  MaxDb = 2
  MaxFaults = 2
  MaxCrashes = 1
SYMMETRY Symmetry
INVARIANTS AtMostOneXray ReportedStaysApplied FileIsRunningConfig DeferredRestartKept
