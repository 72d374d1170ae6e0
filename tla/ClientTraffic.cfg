SPECIFICATION Spec
CONSTANTS
  quota = quota
  daily = daily
  Clients = {quota, daily}
  Ticks = {t1}
  Admins = {a1, a2}
  Cron = Cron
  None = None
  Total <- MCTotal
  Period <- MCPeriod
  Start <- MCStart
  Ops = {"on", "off", "reset", "botReset", "resetAll", "view"}
  RestartOnDisable = TRUE
  MaxTime = 2
  MaxTraffic <- MCMaxTraffic
  MaxEvents = 2
INVARIANTS NotOverbilled CutOff OffLasts
PROPERTY ReportedOnIsServed
