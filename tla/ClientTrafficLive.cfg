SPECIFICATION FairSpec
CONSTANTS
  quota = quota
  daily = daily
  Clients = {quota}
  Ticks = {t1}
  Admins = {a1}
  Cron = Cron
  None = None
  Total <- MCTotal
  Period <- MCPeriod
  Start <- MCStart
  Ops = {"on", "off", "reset", "botReset", "resetAll", "view"}
  RestartOnDisable = TRUE
  MaxTime = 2
  MaxTraffic <- MCMaxTraffic
  MaxEvents = 3
PROPERTY ExhaustedIsCut
