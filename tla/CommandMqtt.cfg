\* Two commands for one launcher over MQTT with fallback polling, a journal
\* of one entry so that entries are evicted.
CONSTANTS
  r1 = r1
  r2 = r2
  d1 = d1
  d2 = d2
  NoRow = NoRow
  Request <- TwoRequests
  Device <- OneDevice
  Group <- OneGroup
  ExitKiosk <- BothExit
  UseMqtt = TRUE
  MaxEntries = 1
  MaxFaults = 2
SPECIFICATION Spec
SYMMETRY RequestSymmetry
INVARIANTS
  TypeOK
  ResultsComeFromRuns
  RunsAreAccounted
  ExitIsSettled
PROPERTIES
  TerminalIsFinal
  LifecycleSpec
