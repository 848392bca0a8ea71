\* Two commands for one launcher that polls; liveness.
CONSTANTS
  r1 = r1
  r2 = r2
  d1 = d1
  d2 = d2
  NoRow = NoRow
  Request <- TwoRequests
  Device <- OneDevice
  Group <- NoGroup
  ExitKiosk <- NoExits
  UseMqtt = FALSE
  MaxEntries = 2
  MaxFaults = 1
SPECIFICATION FairSpec
PROPERTY PendingIsSettled
