CONSTANTS
  one = one
  two = two
  a = a
  Part <- Parts
  First = one
  OtherFile <- Others
  Limit = 2
  Grace = 1
SPECIFICATION FairSpec
PROPERTIES
  InstallationIsOwed
  CaptureEnds
