\* A phone is provisioned again while an earlier attempt is under way.
SPECIFICATION Spec
CONSTANTS
  t1 = t1
  t2 = t2
  d1 = d1
  p1 = p1
  k1 = k1
  k2 = k2
  Token <- TwoTokens
  Device <- OneDevice
  Phone <- OnePhone
  Call <- TwoCalls
  Malformed = Malformed
  None = None
  MaxDisables = 1
  MaxIntents = 2
  MaxFaults = 1
SYMMETRY CallSymmetry
INVARIANTS TypeOK BoundOnce SecretIsCurrent RetiredIsCutOff
PROPERTY LifecycleSpec
CHECK_DEADLOCK FALSE
