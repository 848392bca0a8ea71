\* Three devices, a page of one row, an overview that reads the newest report.
SPECIFICATION Spec
CONSTANTS
  d1 = d1
  d2 = d2
  d3 = d3
  None = None
  Device = {d1, d2, d3}
  Level <- Levels
  Body <- Bodies
  LowLevel = 20
  Day = 1
  StaleAfter = 1
  Week = 2
  Midnight <- Midnights
  DefaultLimit = 1
  PageCap = 3
  Limit = {0}
  Model = {d1, d2, d3}
  ModelOf <- Models
  Window = 1
  Slices = 1
  MaxChanges = 1
  MaxTime = 1
  MaxReports = 2
SYMMETRY DeviceSymmetry
INVARIANTS TypeOK WalkMissesNothing FiltersAgree StaleIsHighlighted HealthyHidesNothing ChartsAddUp
CHECK_DEADLOCK FALSE
