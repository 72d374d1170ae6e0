SPECIFICATION FairSpec
CONSTANTS
  Admins = {a1}
  Watchers = {w1, w2}
  Jobs = {}
  CronRuns = {}
  None = None
  MaxDb = 1
  MaxFaults = 1
  MaxCrashes = 1
PROPERTIES CrashRecovered EveryCallReturns
