CONSTANTS
  u = u
  v = v
  w = w
  primary = primary
  s = s
  t = t
  i = i
  none = none
  Window = {u, v, w}
  Primary = primary
  Session = {s, t}
  QueuedJob = {i}
  None = none
SPECIFICATION OwnershipSpec
INVARIANTS
  JobsHaveOneWindow
  SnapshotsAreFindable
PROPERTY SavedJobsStay
SYMMETRY Symmetry
