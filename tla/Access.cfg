\* Two sessions, two writing requests, a user and the environment's administrator.
SPECIFICATION Spec
CONSTANTS
  u1 = u1
  seed = seed
  other = other
  env = env
  s1 = s1
  s2 = s2
  r1 = r1
  r2 = r2
  None = None
  User = {u1}
  Role = {seed, other}
  SeedRole = seed
  Env = env
  Session = {s1, s2}
  Request = {r1, r2}
  Change <- Changes
  Plugins = {"plugin"}
  TTL = 1
  RoleLimit = 1
  Burst = 2
  Refill = 2
  MaxTime = 3
SYMMETRY PeopleSymmetry
INVARIANTS TypeOK PowerLapses AuditMatchesChanges LoginsAreBounded
CHECK_DEADLOCK FALSE
