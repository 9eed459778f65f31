CONSTANTS
  f = f
  g = g
  r = r
  c = c
  d = d
  none = none
  File = {f, g}
  Raw = r
  Copy = {c, d}
  NoPath = none
SPECIFICATION FairSpec
INVARIANTS
  CopiesAreExact
  RestIsLatest
PROPERTIES
  SnapshotSurvives
  FailedLoadKeepsSession
  DeferredIsServed
