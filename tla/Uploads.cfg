\* Two uploads and links of every kind, one fault, the cleanup.
SPECIFICATION Spec
CONSTANTS
  j1 = j1
  j2 = j2
  k1 = k1
  c1 = c1
  c2 = c2
  p1 = p1
  p2 = p2
  path1 = path1
  seed = seed
  None = None
  Job = {j1, j2}
  ApiKey = {k1}
  Content = {c1, c2}
  Path = {path1}
  Seed = seed
  Legacy = k1
  Package = {p1, p2}
  Agent = p2
  Request <- AllRequests
  MaxFaults = 1
SYMMETRY JobSymmetry
INVARIANTS TypeOK OfferedIsServed ObjectsAreAccounted OneContentPerCode
