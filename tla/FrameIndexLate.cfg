CONSTANTS
  Video <- Videos
  Mode = {0, 1}
  DiscardingMode = 1
  Stamp = {0, 1, 2, 3}
SPECIFICATION Spec
INVARIANT PictureIsFrame
