\* Two enrollments, one change of the content and one fault, syncs one by one.
SPECIFICATION FairSpec
CONSTANTS
  s1 = s1
  s2 = s2
  i1 = i1
  i2 = i2
  i3 = i3
  v1 = v1
  v2 = v2
  Snapshot <- TwoSnapshots
  Item <- ThreeItems
  Value <- TwoValues
  Content <- Changing
  SandboxFile <- TwoFiles
  None = None
  MaxEnrollments = 2
  MaxSyncs = 1
  MaxPublishes = 1
  MaxFaults = 1
  Interrupts = FALSE
INVARIANT TypeOK
PROPERTIES RecordedMeansApplied ContentConverges
