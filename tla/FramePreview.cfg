CONSTANTS
  graph = graph
  movie = movie
  Source = {graph, movie}
  Indexed = {graph}
  Native = {graph}
  Length = 2
  Estimate = 3
  Damaged = {1}
  Cuts <- AllCuts
  MaxFrame = 2
  MaxGeneration = 6
SPECIFICATION FairSpec
INVARIANTS
  PictureIsLabelled
  DecoderIsNotShared
  RestShowsLastRequest
PROPERTY RequestIsAnswered
CHECK_DEADLOCK FALSE
