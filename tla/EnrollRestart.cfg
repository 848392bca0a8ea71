\* One provisioning intent, one restored activity.
SPECIFICATION Spec
CONSTANTS
  t1 = t1
  t2 = t2
  d1 = d1
  p1 = p1
  k1 = k1
  k2 = k2
  Token <- OneToken
  Device <- OneDevice
  Phone <- OnePhone
  Call <- OneCall
  Malformed = Malformed
  None = None
  MaxDisables = 1
  MaxIntents = 1
  MaxFaults = 1
PROPERTY RestartKeepsIdentity
CHECK_DEADLOCK FALSE
