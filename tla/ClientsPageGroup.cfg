SPECIFICATION Spec
CONSTANTS
  Clients = {c1, c2}
  Emails = {e1, e2, e3}
  None = None
  Inbounds = {vless, trojan}
  FlowInbounds = {vless}
  PageSize = 1
  MaxActions = 3
CHECK_DEADLOCK FALSE
PROPERTY GroupIsStored
