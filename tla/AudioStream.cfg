SPECIFICATION Spec
CONSTANTS
  Soundtracks <- Tracks
  Lengths = {0, 7}
  Target = 2
  ReadAhead = 2
  Depth = 1
  Jitter = 1
  DecoderJitter = 1
  Positions = {0, 3, 6}
  End = 9
INVARIANTS SoundIsInPlace SilenceIsAGap EndIsComplete
PROPERTIES ClockIsWhatIsHeard OperationEnds PlaybackEnds
