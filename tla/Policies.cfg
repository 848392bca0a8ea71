\* Two requests of administrators at a time, one of them the policy form.
SPECIFICATION Spec
CONSTANTS
  p1 = p1
  p2 = p2
  app1 = app1
  file1 = file1
  cert1 = cert1
  g1 = g1
  k1 = k1
  k2 = k2
  a1 = a1
  a2 = a2
  None = None
  Policy = {p1, p2}
  App = {app1}
  File = {file1}
  Cert = {cert1}
  Group = {g1}
  Passcode = {k1}
  Admin = {a1, a2}
  Editor = {a1}
  MaxEdits = 2
  MaxFaults = 1
INVARIANTS TypeOK KioskCanBeLeft VersionNamesContent RetiredIsNotOffered
PROPERTY SnapshotSettles
CHECK_DEADLOCK FALSE
